---- MODULE Spec2Model ----
(***************************************************************************)
(* The effect-redemption pipeline of mxeaez-shop:                          *)
(*   - the bridge (mxeaez-bridge/bridge.js): message router, delivery      *)
(*     deduplicator (recent / dedupeKey), execution queue (chain) and the  *)
(*     reconnecting WebSocket client (connect / updateWantWs);             *)
(*   - the hub (EBS server): channelSockets, registerChannelSocket,        *)
(*     broadcastToChannel.                                                 *)
(* One action is one macrotask of the Node event loop: a handler runs to   *)
(* completion together with the promise reactions it makes runnable.       *)
(* Time is in milliseconds.                                                *)
(***************************************************************************)
EXTENDS Integers, Sequences, FiniteSets, TLC

\* ------------------------------------------------------------------ bounds
MaxMsgs == 3          \* messages the environment hands to the bridge directly
MaxTime == 9000       \* horizon up to which the wall clock `now` is exact
MaxSockets == 2       \* sockets the bridge makes (new WebSocket) in one run
MaxRedials == 3       \* the same in a run that follows the retry timers alone
MaxConns == 4         \* connections of other clients the hub accepts in one run
MaxBeatConns == 2     \* of these, the ones that come and go under the heartbeat
MaxChanges == 2       \* changes of the stream / record outputs in one run
MaxEvals == 2         \* evaluations of updateWantWs pending at the same time
MaxReqs == 2          \* HTTP requests to the mutating routes in one run
MaxJunk == 2          \* frames that are not the JSON text of an object
MaxDocs == 2          \* inventory documents the viewer holds for one item
MaxEffects == 2       \* runs of the panel's subscription effect
MaxPanelSockets == 3  \* sockets the panel makes in one run
MaxFaults == 2        \* status queries of OBS that fail in one run

\* ------------------------------------------------------- program constants
CHANNEL_ID == "45264995"
BUCKET_MS == 2000
CLEAR_MS == 10000
RETRY_MS == 1500
HEARTBEAT_MS == 25000
COST == 1000             \* ITEMS: the cost of dramatic_zoom

Min(a, b) == IF a < b THEN a ELSE b

\* ------------------------------------------------------------ effect tables
\* HANDLERS: the item ids that have a handler (the ones the model feeds).
HANDLERS == {"dramatic_zoom", "spongebob_stfu", "tts_message", "streamer_asmr",
             "timeout_anyone", "mystery_box", "vip_badge", "mute_streamer"}

\* HANDLERS is an object literal: HANDLERS[key] also finds what the literal
\* inherits from Object.prototype.  Of these, "constructor" (the function
\* Object) and "__proto__" (an object, not callable) stand for all.
ObjectPrototypeKeys == {"constructor", "__proto__"}

\* const handler = HANDLERS[msg.itemId]; if (!handler) return ...
\* TRUE iff the lookup yields a truthy value.
HandlerFound(itemId) == itemId \in HANDLERS \cup ObjectPrototypeKeys

\* EFFECT_DURATIONS_MS[itemId] ?? 0; for an inherited key the value is not a
\* number and `hold > 0` is false: no hold.
EffectDurationOrDefault(itemId) ==
  CASE itemId = "dramatic_zoom" -> 5000
    [] itemId = "spongebob_stfu" -> 3000
    [] itemId = "tts_message" -> 0
    [] itemId = "timeout_anyone" -> 0
    [] itemId = "mute_streamer" -> 10000
    [] OTHER -> 5000
EffectDuration(itemId) ==
  CASE itemId = "dramatic_zoom" -> 5000
    [] itemId = "spongebob_stfu" -> 3000
    [] itemId = "tts_message" -> 0
    [] itemId = "timeout_anyone" -> 0
    [] itemId = "mute_streamer" -> 10000
    [] OTHER -> 0

\* ----------------------------------------------------------------- messages
\* A parsed message.  An absent string field is "", an absent itemId is
\* "undefined" (what JS makes of it as a template value and as a key),
\* an absent `at` is 0 (falsy).  `eid` is the identity of the publication;
\* it is history only and no code reads it.
Viewer(o, u, l) == [opaqueUserId |-> o, userId |-> u, login |-> l]
Msg(e, t, c, i, v, a, p) ==
  [eid |-> e, type |-> t, channelId |-> c, itemId |-> i, viewer |-> v,
   at |-> a, prizeId |-> p]

\* Math.round(x / 2000) for x >= 0
RoundDiv(x, w) == (2 * x + w) \div (2 * w)
\* Math.round((msg.at || Date.now()) / 2000)
Bucket(msg, dateNow) == RoundDiv(IF msg.at # 0 THEN msg.at ELSE dateNow, BUCKET_MS)

dedupeKey(msg, dateNow) ==
  LET viewer == IF msg.viewer.opaqueUserId # "" THEN msg.viewer.opaqueUserId
                ELSE IF msg.viewer.userId # "" THEN msg.viewer.userId
                ELSE ""
      at == Bucket(msg, dateNow)
  IN msg.type \o "|" \o msg.itemId \o "|" \o viewer \o "|" \o ToString(at)

VARIABLES
  feed,        \* the messages the environment may hand to the bridge
  now,         \* wall clock (Date.now()), exact below MaxTime
  recent,      \* bridge: the dedupe set
  clearTimer,  \* bridge: ms until setInterval(() => recent.clear(), 10000) fires
  tasks,       \* bridge: one record per chain.then(...) link, in creation order
  chain,       \* bridge: the link `chain` refers to (0: Promise.resolve())
  wantWs,      \* bridge: the desired-connection flag
  ws,          \* bridge: the current socket (0: null / undefined)
  sock,        \* bridge: readyState of each socket made by connect()
  stream,      \* OBS: the stream output is active
  record,      \* OBS: the record output is active
  changes,     \* OBS: number of output changes so far
  notes,       \* StreamStateChanged / RecordStateChanged events on their way
               \* to the bridge
  evals,       \* bridge: the pending calls of updateWantWs in the order of
               \* their start; for each its two status queries: "sent", read
               \* by OBS ("readT" / "readF"), or answered ("T" / "F")
  retry,       \* bridge: ms until the setTimeout(connect, 1500) made by the
               \*         close of socket k fires (-1: none pending, -2: it
               \*         fired at the present instant)
  channelSockets, \* hub: Map channel id -> Set of connections (insertion order)
  srv,         \* hub: readyState of each server-side connection
  connChan,    \* hub: the channelId each connection was registered with
  asked,       \* history: the channel_id of each connection's upgrade request
               \* ("" absent or empty, "?" no request yet)
  isAlive,     \* hub: the isAlive flag of each connection
  hbTimer,     \* hub: ms until the heartbeat interval fires (-1: not running)
  pinged,      \* history: the connections pinged at the latest heartbeat tick
               \* that have not answered since
  reqs,        \* hub: per HTTP request its route (kind), the step it awaits
               \* (pc), its outcome (st), the store writes it has committed
               \* and whether it has called broadcastToChannel (sent)
  wire,        \* per socket of the bridge: the frames the hub sent on its
               \* connection that have not reached the bridge yet
  pubs,        \* history: the eids of the events passed to broadcastToChannel
  bcast,       \* the broadcastToChannel call of the step just taken: its calls
               \* of send, in order, and whether it raised (NoBcast: none)
  started,     \* history: receipt numbers in the order handlers were invoked
  received,    \* history: the messages handed to the message handler, in order
  sinceRecv,   \* stopwatch: ms since the latest receipt, stopped at 2000
  seen,        \* history: the messages received since recent was last cleared,
               \* each with the time bucket of its timestamp
  uncaught,    \* history: a rejection left the chain unhandled, or an
               \* exception left the message handler
  junk,        \* history: number of frames received that were not the JSON
               \* text of an object
  copy,        \* which of the two copies of the hub's source is deployed
  inventory,   \* the viewer's inventory documents for the item redeemed
  redemptions, \* number of documents in the channel's redemptions collection
  redeems,     \* the POST /redeem requests, each with what it has done
  panel,       \* the viewer panel: its subscription effect and its sockets
  shop,        \* the points ledger, its cache, and the requests that use them
  restores,    \* the restore timers the handlers of timed effects have made
  faults       \* evaluations of updateWantWs that ended in its catch

queueVars == <<recent, clearTimer, tasks, chain, started, received, sinceRecv,
              seen, uncaught>>
connVars == <<wantWs, ws, sock, retry>>
hubVars == <<channelSockets, srv, connChan, asked, wire, pubs>>
beatVars == <<isAlive, hbTimer, pinged>>
gateVars == <<stream, record, changes, notes, evals>>
storeVars == <<copy, inventory, redemptions, redeems>>
\* the components followed on their own
otherVars == <<panel, shop, restores, faults>>
vars == <<feed, now, queueVars, connVars, hubVars, beatVars, gateVars, reqs, junk,
          storeVars, otherVars, bcast>>

\* No broadcastToChannel call in this step.
NoBcast == [channelId |-> "", throwing |-> {}, calls |-> <<>>, raised |-> FALSE]
NoSend == bcast' = NoBcast


\* ------------------------------------------------------------ the queue
\* One link of `chain`: the promise chain.then(async () => {...}).catch(...)
\* made for receipt `rid`.  st: "waiting" (predecessor unsettled), "running"
\* (handler invoked, not settled), "holding" (in sleep(hold)), "done"
\* (fulfilled), "rejected".  `waited` is a stopwatch: the ms elapsed since the
\* handler settled, stopped at `hold`.
Task(rid, msg, hold, prev) ==
  [rid |-> rid, eid |-> msg.eid, itemId |-> msg.itemId, hold |-> hold,
   prev |-> prev, st |-> "waiting", failed |-> FALSE, timer |-> 0,
   waited |-> 0, startAt |-> -1]

Settled(ts, p) == p = 0 \/ ts[p].st \in {"done", "rejected"}
Fulfilled(ts, p) == p = 0 \/ ts[p].st = "done"

\* .catch((e) => log("handler error", ...)): the rejection ends here.
CatchNone(rejected) == IF rejected THEN "rejected" ELSE "done"
Catch(rejected) == "done"

\* The promise reactions that run before the macrotask ends: every link whose
\* predecessor has settled either invokes its handler (predecessor fulfilled)
\* or passes the rejection on to its own .catch.
RECURSIVE Drain(_, _, _)
Drain(ts, st, t) ==
  LET ready == {i \in 1..Len(ts) : ts[i].st = "waiting" /\ Settled(ts, ts[i].prev)}
  IN IF ready = {} THEN [tasks |-> ts, started |-> st]
     ELSE LET i == CHOOSE j \in ready : \A k \in ready : j <= k
          IN IF Fulfilled(ts, ts[i].prev)
             THEN Drain([ts EXCEPT ![i].st = "running", ![i].startAt = t],
                        Append(st, ts[i].rid), t)
             ELSE Drain([ts EXCEPT ![i].st = Catch(TRUE)], st, t)

\* chain = chain.then(...).catch(...)
EnqueueDetached(ts, c, rid, msg, hold) == Append(ts, Task(rid, msg, hold, 0))
EnqueueLifo(ts, c, rid, msg, hold) ==
  LET w == {i \in 1..Len(ts) : ts[i].st = "waiting"}
  IN IF w = {} THEN Append(ts, Task(rid, msg, hold, c))
     ELSE LET h == CHOOSE i \in w : \A k \in w : i <= k
          IN Append([ts EXCEPT ![h].prev = Len(ts) + 1],
                    Task(rid, msg, hold, ts[h].prev))
Enqueue(ts, c, rid, msg, hold) == Append(ts, Task(rid, msg, hold, c))

\* The end of the async callback: the finally block has run; the callback's
\* promise is rejected iff the handler failed, and .catch settles the link.
Finish(ts, i) ==
  [ts EXCEPT ![i].st = Catch(ts[i].failed), ![i].timer = 0]

\* finally { if (hold > 0) await sleep(hold); ... } after the handler settled.
AfterHandlerNoHold(ts, i, ok) == Finish([ts EXCEPT ![i].failed = ~ok], i)
AfterHandlerNoHoldOnError(ts, i, ok) ==
  LET t1 == [ts EXCEPT ![i].failed = ~ok]
  IN IF ts[i].hold > 0 /\ ok
     THEN [t1 EXCEPT ![i].st = "holding", ![i].timer = ts[i].hold]
     ELSE Finish(t1, i)
AfterHandler(ts, i, ok) ==
  LET t1 == [ts EXCEPT ![i].failed = ~ok]
  IN IF ts[i].hold > 0
     THEN [t1 EXCEPT ![i].st = "holding", ![i].timer = ts[i].hold]
     ELSE Finish(t1, i)

\* ------------------------------------------------------- message handler
\* ws.on("message", ...) for a parsed object `msg`; `rid` numbers the receipt.
\* Returns the new recent, tasks and chain.
OnMessageNoDedupe(msg, rid, rc, ts, c, dateNow) ==
  IF msg.type = "redeem" /\ msg.channelId = CHANNEL_ID
  THEN IF ~HandlerFound(msg.itemId)
       THEN [recent |-> rc \cup {dedupeKey(msg, dateNow)}, tasks |-> ts, chain |-> c]
       ELSE [recent |-> rc \cup {dedupeKey(msg, dateNow)},
             tasks |-> Enqueue(ts, c, rid, msg, EffectDuration(msg.itemId)),
             chain |-> Len(ts) + 1]
  ELSE [recent |-> rc, tasks |-> ts, chain |-> c]
OnMessageNoFilter(msg, rid, rc, ts, c, dateNow) ==
  LET key == dedupeKey(msg, dateNow)
  IN IF key \in rc
     THEN [recent |-> rc, tasks |-> ts, chain |-> c]
     ELSE IF ~HandlerFound(msg.itemId)
     THEN [recent |-> rc \cup {key}, tasks |-> ts, chain |-> c]
     ELSE [recent |-> rc \cup {key},
           tasks |-> Enqueue(ts, c, rid, msg, EffectDuration(msg.itemId)),
           chain |-> Len(ts) + 1]
OnMessage(msg, rid, rc, ts, c, dateNow) ==
  IF msg.type = "redeem" /\ msg.channelId = CHANNEL_ID
  THEN LET key == dedupeKey(msg, dateNow)
       IN IF key \in rc
          THEN [recent |-> rc, tasks |-> ts, chain |-> c]
          ELSE IF ~HandlerFound(msg.itemId)
          THEN [recent |-> rc \cup {key}, tasks |-> ts, chain |-> c]
          ELSE [recent |-> rc \cup {key},
                tasks |-> Enqueue(ts, c, rid, msg, EffectDuration(msg.itemId)),
                chain |-> Len(ts) + 1]
  ELSE [recent |-> rc, tasks |-> ts, chain |-> c]

\* The wall clock is read (msg.at || Date.now()) only by a message without
\* timestamp; such a message is handed over only while the clock is exact.
ClockExactFor(msg) == msg.at # 0 \/ now < MaxTime

\* The message event of a socket, with the promise reactions it makes runnable.
HandleMessage(m) ==
  /\ ClockExactFor(m)
  /\ LET r == OnMessage(m, Len(received) + 1, recent, tasks, chain, now)
         d == Drain(r.tasks, started, now)
     IN /\ recent' = r.recent
        /\ chain' = r.chain
        /\ tasks' = d.tasks
        /\ started' = d.started
  /\ received' = Append(received, m)
  /\ sinceRecv' = 0
  /\ seen' = seen \cup {[msg |-> m, bucket |-> Bucket(m, now)]}
  /\ UNCHANGED <<clearTimer, uncaught>>

Receiving(k) == sock[k] \in {"OPEN", "CLOSING"}

\* The environment hands message m to the message handler of socket k.
EnvMessage(k, m) ==
  /\ Receiving(k)
  /\ Len(received) < MaxMsgs
  /\ HandleMessage(m)
  /\ NoSend
  /\ UNCHANGED <<feed, now, otherVars, storeVars, junk, reqs, gateVars, beatVars, connVars, hubVars>>

\* Frames that are not the JSON text of an object: text that is no JSON, and
\* the JSON texts of null, a number, a string and an array.
Malformed == {"{oops", "null", "42", "\"redeem\"", "[]"}
\* JSON.parse(String(data)) for such a frame: it throws, or returns a value of
\* which `falsy` (!msg) and `typeof` are given.
JsonParse(data) ==
  IF data = "{oops" THEN [threw |-> TRUE, falsy |-> FALSE, typeof |-> ""]
  ELSE IF data = "null" THEN [threw |-> FALSE, falsy |-> TRUE, typeof |-> "object"]
  ELSE IF data = "42" THEN [threw |-> FALSE, falsy |-> FALSE, typeof |-> "number"]
  ELSE IF data = "[]" THEN [threw |-> FALSE, falsy |-> FALSE, typeof |-> "object"]
  ELSE [threw |-> FALSE, falsy |-> FALSE, typeof |-> "string"]

\* The message handler on such a frame.  `escaped`: an exception left the
\* handler; `routed`: the frame got past the guards to the tests of msg.type
\* (the properties of a number, a string or an array are undefined there,
\* reading a property of null throws).
OnDataNoGuards(data) ==
  LET p == JsonParse(data)
  IN IF p.threw THEN [escaped |-> TRUE, routed |-> FALSE]
     ELSE IF p.falsy THEN [escaped |-> TRUE, routed |-> FALSE]
     ELSE [escaped |-> FALSE, routed |-> TRUE]
OnData(data) ==
  LET p == JsonParse(data)
  IN IF p.threw THEN [escaped |-> FALSE, routed |-> FALSE]
     ELSE IF p.falsy \/ p.typeof # "object" THEN [escaped |-> FALSE, routed |-> FALSE]
     ELSE [escaped |-> FALSE, routed |-> TRUE]

\* The environment hands such a frame to the message handler of socket k.  A
\* frame that is routed has neither type "redeem" nor type "mystery".
EnvData(k, data) ==
  /\ Receiving(k)
  /\ junk < MaxJunk
  /\ junk' = junk + 1
  /\ uncaught' = (uncaught \/ OnData(data).escaped)
  /\ NoSend
  /\ UNCHANGED <<feed, now, otherVars, storeVars, recent, clearTimer, tasks, chain, started, received,
                 sinceRecv, seen, reqs, gateVars, beatVars, connVars, hubVars>>

\* A frame the hub sent on connection k reaches the bridge's socket k.
Deliver(k) ==
  /\ Receiving(k)
  /\ wire[k] # <<>>
  /\ HandleMessage(Head(wire[k]))
  /\ wire' = [wire EXCEPT ![k] = Tail(@)]
  /\ NoSend
  /\ UNCHANGED <<feed, now, otherVars, storeVars, junk, reqs, gateVars, beatVars, connVars, channelSockets, srv, connChan, asked, pubs>>

\* The handler of the running link i settles: it resolves (ok) or rejects.
HandlerSettle(i, ok) ==
  /\ i \in 1..Len(tasks)
  /\ tasks[i].st = "running"
  /\ LET a == AfterHandler(tasks, i, ok)
         d == Drain(a, started, now)
     IN /\ tasks' = d.tasks
        /\ started' = d.started
        /\ uncaught' = (uncaught \/ a[i].st = "rejected")
  /\ NoSend
  /\ UNCHANGED <<feed, now, otherVars, storeVars, junk, reqs, gateVars, beatVars, recent, clearTimer, chain, received, sinceRecv, seen,
                 connVars, hubVars>>

\* The timer of sleep(hold) of link i fires.
HoldElapsed(i) ==
  /\ i \in 1..Len(tasks)
  /\ tasks[i].st = "holding"
  /\ tasks[i].timer = 0
  /\ LET a == Finish(tasks, i)
         d == Drain(a, started, now)
     IN /\ tasks' = d.tasks
        /\ started' = d.started
        /\ uncaught' = (uncaught \/ a[i].st = "rejected")
  /\ NoSend
  /\ UNCHANGED <<feed, now, otherVars, storeVars, junk, reqs, gateVars, beatVars, recent, clearTimer, chain, received, sinceRecv, seen,
                 connVars, hubVars>>

ClearRecentOldestOnly ==
  /\ clearTimer = 0
  /\ recent' = IF recent = {} THEN {} ELSE recent \ {CHOOSE k \in recent : TRUE}
  /\ seen' = {}
  /\ clearTimer' = CLEAR_MS
  /\ NoSend
  /\ UNCHANGED <<feed, now, otherVars, storeVars, junk, reqs, gateVars, beatVars, tasks, chain, started, received, sinceRecv, uncaught,
                 connVars, hubVars>>
\* setInterval(() => recent.clear(), 10000)
ClearRecent ==
  /\ clearTimer = 0
  /\ recent' = {}
  /\ seen' = {}
  /\ clearTimer' = CLEAR_MS
  /\ NoSend
  /\ UNCHANGED <<feed, now, otherVars, storeVars, junk, reqs, gateVars, beatVars, tasks, chain, started, received, sinceRecv, uncaught,
                 connVars, hubVars>>

\* ------------------------------------------------------------ the client
Sockets == 1..MaxRedials
\* The sockets not yet made: "NONE" can still be made, "OFF" is beyond the
\* number of sockets followed in the run.
Unmade(n) == [k \in Sockets |-> IF k <= n THEN "NONE" ELSE "OFF"]
FreeSockets == {k \in Sockets : sock[k] = "NONE"}

\* connect(): if (!EBS_WS || !wantWs || ws) return; ws = new WebSocket(EBS_WS)
ConnectIgnoreWant(want, w, socks) ==
  IF w # 0 \/ \A j \in Sockets : socks[j] # "NONE" THEN [ws |-> w, sock |-> socks]
  ELSE LET k == CHOOSE j \in Sockets : socks[j] = "NONE" /\
                   \A i \in Sockets : socks[i] = "NONE" => j <= i
       IN [ws |-> k, sock |-> [socks EXCEPT ![k] = "CONNECTING"]]
ConnectUnguarded(want, w, socks) ==
  IF ~want \/ \A j \in Sockets : socks[j] # "NONE" THEN [ws |-> w, sock |-> socks]
  ELSE LET k == CHOOSE j \in Sockets : socks[j] = "NONE" /\
                   \A i \in Sockets : socks[i] = "NONE" => j <= i
       IN [ws |-> k, sock |-> [socks EXCEPT ![k] = "CONNECTING"]]
Connect(want, w, socks) ==
  IF ~want \/ w # 0 THEN [ws |-> w, sock |-> socks]
  ELSE LET k == CHOOSE j \in Sockets : socks[j] = "NONE" /\
                   \A i \in Sockets : socks[i] = "NONE" => j <= i
       IN [ws |-> k, sock |-> [socks EXCEPT ![k] = "CONNECTING"]]

\* ws.close() on socket k.  On an open socket it starts the closing handshake,
\* during which messages still arrive; on a connecting socket it aborts the
\* handshake ("ABORTING": readyState CLOSING of a socket that never opened).
CloseSock(socks, k) ==
  IF socks[k] = "OPEN" THEN [socks EXCEPT ![k] = "CLOSING"]
  ELSE IF socks[k] = "CONNECTING" THEN [socks EXCEPT ![k] = "ABORTING"]
  ELSE socks

\* updateWantWs from the point where both status queries have answered;
\* shouldConnect is !!(s?.outputActive || r?.outputActive).
Gate(shouldConnect) ==
  /\ (shouldConnect /\ ~wantWs /\ ws = 0) => FreeSockets # {}
  /\ IF shouldConnect /\ ~wantWs
     THEN LET c == Connect(TRUE, ws, sock)
          IN wantWs' = TRUE /\ ws' = c.ws /\ sock' = c.sock
     ELSE IF ~shouldConnect /\ wantWs
     THEN /\ wantWs' = FALSE
          /\ sock' = IF ws # 0 THEN CloseSock(sock, ws) ELSE sock
          /\ ws' = ws
     ELSE UNCHANGED <<wantWs, ws, sock>>

\* One whole evaluation of updateWantWs whose queries answered shouldConnect
\* (the state of OBS is not followed here).
UpdateWantWs(shouldConnect) ==
  /\ Gate(shouldConnect)
  /\ NoSend
  /\ UNCHANGED <<feed, now, otherVars, storeVars, junk, reqs, gateVars, beatVars, queueVars, retry, hubVars>>

\* An output of OBS starts or stops; OBS emits StreamStateChanged or
\* RecordStateChanged.
ObsChange(isStream) ==
  /\ changes < MaxChanges
  /\ changes' = changes + 1
  /\ IF isStream THEN stream' = ~stream /\ record' = record
                 ELSE record' = ~record /\ stream' = stream
  /\ notes' = notes + 1
  /\ NoSend
  /\ UNCHANGED <<feed, now, otherVars, storeVars, junk, reqs, queueVars, connVars, hubVars, beatVars, evals>>

\* o.on("StreamStateChanged" / "RecordStateChanged", () => updateWantWs()):
\* the evaluation starts and sends GetStreamStatus and GetRecordStatus.
Notified ==
  /\ notes > 0
  /\ Len(evals) < MaxEvals
  /\ notes' = notes - 1
  /\ evals' = Append(evals, [s |-> "sent", r |-> "sent"])
  /\ NoSend
  /\ UNCHANGED <<feed, now, otherVars, storeVars, junk, reqs, queueVars, connVars, hubVars, beatVars, stream,
                 record, changes>>

Queries == {"s", "r"}
ReadValue(b) == IF b THEN "readT" ELSE "readF"
Arrived(v) == IF v = "readT" THEN "T" ELSE "F"
RemoveAt(q, i) == [j \in 1..(Len(q) - 1) |-> IF j < i THEN q[j] ELSE q[j + 1]]

\* OBS handles query q of the i-th pending evaluation: it reads the output's
\* state of that moment into the response.
ObsReads(i, q) ==
  /\ i \in 1..Len(evals)
  /\ evals[i][q] = "sent"
  /\ evals' = [evals EXCEPT ![i][q] = ReadValue(IF q = "s" THEN stream ELSE record)]
  /\ NoSend
  /\ UNCHANGED <<feed, now, otherVars, storeVars, junk, reqs, queueVars, connVars, hubVars, beatVars, stream,
                 record, changes, notes>>

\* The response to query q of the i-th pending evaluation reaches the bridge
\* (obs-websocket matches responses to requests by id, in any order).  With
\* the second response Promise.all fulfils and the rest of updateWantWs runs.
Answered(i, q) ==
  /\ i \in 1..Len(evals)
  /\ evals[i][q] \in {"readT", "readF"}
  /\ LET e == [evals[i] EXCEPT ![q] = Arrived(@)]
     IN IF e.s \in {"T", "F"} /\ e.r \in {"T", "F"}
        THEN /\ Gate(e.s = "T" \/ e.r = "T")
             /\ evals' = RemoveAt(evals, i)
        ELSE /\ evals' = [evals EXCEPT ![i] = e]
             /\ UNCHANGED <<wantWs, ws, sock>>
  /\ NoSend
  /\ UNCHANGED <<feed, now, otherVars, storeVars, junk, reqs, queueVars, retry, hubVars, beatVars, stream, record,
                 changes, notes>>

\* catch (e) { log("updateWantWs failed:", ...) } of updateWantWs, entered
\* when Promise.all rejects: what it leaves of wantWs, ws and the sockets, and
\* whether anything is thrown on.
QueryErrorDisconnects(want, w, socks) ==
  [wantWs |-> FALSE, ws |-> w,
   sock |-> IF want /\ w # 0 THEN CloseSock(socks, w) ELSE socks, escaped |-> FALSE]
CatchQueryError(want, w, socks) ==
  [wantWs |-> want, ws |-> w, sock |-> socks, escaped |-> FALSE]

\* Query q of the i-th pending evaluation is rejected (OBS answers with an
\* error, or the connection to OBS is lost) before or after OBS read the
\* output: Promise.all rejects at once and the evaluation ends in its catch;
\* the answer to the other query is dropped.
QueryFails(i, q) ==
  /\ i \in 1..Len(evals)
  /\ evals[i][q] \in {"sent", "readT", "readF"}
  /\ faults < MaxFaults
  /\ faults' = faults + 1
  /\ LET c == CatchQueryError(wantWs, ws, sock)
     IN /\ wantWs' = c.wantWs
        /\ ws' = c.ws
        /\ sock' = c.sock
        /\ uncaught' = (uncaught \/ c.escaped)
  /\ evals' = RemoveAt(evals, i)
  /\ NoSend
  /\ UNCHANGED <<feed, now, panel, shop, restores, storeVars, junk, reqs, recent,
                 clearTimer, tasks, chain, started, received, sinceRecv, seen,
                 retry, hubVars, beatVars, stream, record, changes, notes>>

\* ws.on("open")
SockOpen(k) ==
  /\ sock[k] = "CONNECTING"
  /\ srv[MaxConns + k] # "NONE"
  /\ sock' = [sock EXCEPT ![k] = "OPEN"]
  /\ NoSend
  /\ UNCHANGED <<feed, now, otherVars, storeVars, junk, reqs, gateVars, beatVars, queueVars, wantWs, ws, retry, hubVars>>

\* ws.on("close") of socket k: ws = null; if (wantWs) setTimeout(connect, 1500).
\* The frames still on their way to the socket are lost with it.
SockCloseNoRetry(k) ==
  /\ sock[k] \in {"CONNECTING", "OPEN", "CLOSING", "ABORTING"}
  /\ sock' = [sock EXCEPT ![k] = "CLOSED"]
  /\ ws' = 0
  /\ retry' = retry
  /\ wire' = [wire EXCEPT ![k] = <<>>]
  /\ NoSend
  /\ UNCHANGED <<feed, now, otherVars, storeVars, junk, reqs, gateVars, beatVars, queueVars, wantWs, channelSockets, srv, connChan, asked,
                 pubs>>
SockCloseResetsChain(k) ==
  /\ sock[k] \in {"CONNECTING", "OPEN", "CLOSING", "ABORTING"}
  /\ sock' = [sock EXCEPT ![k] = "CLOSED"]
  /\ ws' = 0
  /\ retry' = IF wantWs THEN [retry EXCEPT ![k] = RETRY_MS] ELSE retry
  /\ wire' = [wire EXCEPT ![k] = <<>>]
  /\ chain' = 0
  /\ NoSend
  /\ UNCHANGED <<feed, now, otherVars, storeVars, junk, reqs, gateVars, beatVars, recent, clearTimer,
                 tasks, started, received, sinceRecv, seen, uncaught, wantWs,
                 channelSockets, srv, connChan, asked, pubs>>
SockClose(k) ==
  /\ sock[k] \in {"CONNECTING", "OPEN", "CLOSING", "ABORTING"}
  /\ sock' = [sock EXCEPT ![k] = "CLOSED"]
  /\ ws' = 0
  /\ retry' = IF wantWs THEN [retry EXCEPT ![k] = RETRY_MS] ELSE retry
  /\ wire' = [wire EXCEPT ![k] = <<>>]
  /\ NoSend
  /\ UNCHANGED <<feed, now, otherVars, storeVars, junk, reqs, gateVars, beatVars, queueVars, wantWs, channelSockets, srv, connChan, asked,
                 pubs>>

\* the timer setTimeout(connect, 1500) made by the close of socket k fires
RetryFire(k) ==
  /\ retry[k] = 0
  /\ (wantWs /\ ws = 0) => FreeSockets # {}
  /\ retry' = [retry EXCEPT ![k] = -2]
  /\ LET c == Connect(wantWs, ws, sock)
     IN ws' = c.ws /\ sock' = c.sock
  /\ NoSend
  /\ UNCHANGED <<feed, now, otherVars, storeVars, junk, reqs, gateVars, beatVars, queueVars, wantWs, hubVars>>


\* --------------------------------------------------------------- the hub
\* The hub's connections: 1..MaxConns belong to other clients, MaxConns + k
\* is the server side of the bridge's socket k.
Conns == 1..MaxConns
BridgeConn(k) == MaxConns + k
IsBridgeConn(c) == c > MaxConns
AllConns == 1..(MaxConns + MaxRedials)
\* ws.send(data) returned: the frame is on its way (tracked for the bridge).
Put(w, c, payload) ==
  IF IsBridgeConn(c) THEN [w EXCEPT ![c - MaxConns] = Append(@, payload)] ELSE w
Channels == {CHANNEL_ID, "other"}
EmptyMap == [x \in {} |-> <<>>]
MapSet(m, k, v) == [x \in DOMAIN m \cup {k} |-> IF x = k THEN v ELSE m[x]]
MapDelete(m, k) == [x \in DOMAIN m \ {k} |-> m[x]]

\* A JS Set as the sequence of its elements in insertion order.
SetAdd(q, c) == IF \E i \in 1..Len(q) : q[i] = c THEN q ELSE Append(q, c)
SetDelete(q, c) == SelectSeq(q, LAMBDA x : x # c)

\* registerChannelSocket(channelId, ws): the registration
registerChannelSocket(m, channelId, c) ==
  MapSet(m, channelId,
         SetAdd(IF channelId \in DOMAIN m THEN m[channelId] ELSE <<>>, c))

\* registerChannelSocket: the close handler it installs
closeHandlerKeepEmpty(m, channelId, c) ==
  IF channelId \in DOMAIN m
  THEN MapSet(m, channelId, SetDelete(m[channelId], c))
  ELSE m
closeHandler(m, channelId, c) ==
  IF channelId \in DOMAIN m
  THEN LET q == SetDelete(m[channelId], c)
       IN IF Len(q) = 0 THEN MapDelete(m, channelId) ELSE MapSet(m, channelId, q)
  ELSE m

\* The loop of broadcastToChannel over the set q from position i on: w is
\* `wire`, l the calls of send so far; `throwing` are the connections whose
\* send throws.  A send that returns puts the frame on the wire.
\* r.raised: the exception left the loop.
Sent(c, ok) == [conn |-> c, ok |-> ok]
RECURSIVE SendLoopNoTry(_, _, _, _, _, _, _)
SendLoopNoTry(q, i, rs, throwing, payload, w, l) ==
  IF i > Len(q) THEN [wire |-> w, calls |-> l, raised |-> FALSE]
  ELSE IF rs[q[i]] # "OPEN"
  THEN SendLoopNoTry(q, i + 1, rs, throwing, payload, w, l)
  ELSE IF q[i] \in throwing
  THEN [wire |-> w, calls |-> Append(l, Sent(q[i], FALSE)), raised |-> TRUE]
  ELSE SendLoopNoTry(q, i + 1, rs, throwing, payload,
                     Put(w, q[i], payload),
                     Append(l, Sent(q[i], TRUE)))
RECURSIVE SendLoopNoStateCheck(_, _, _, _, _, _, _)
SendLoopNoStateCheck(q, i, rs, throwing, payload, w, l) ==
  IF i > Len(q) THEN [wire |-> w, calls |-> l, raised |-> FALSE]
  ELSE IF q[i] \in throwing
  THEN SendLoopNoStateCheck(q, i + 1, rs, throwing, payload, w,
                            Append(l, Sent(q[i], FALSE)))
  ELSE SendLoopNoStateCheck(q, i + 1, rs, throwing, payload,
                            Put(w, q[i], payload),
                            Append(l, Sent(q[i], TRUE)))
RECURSIVE SendLoop(_, _, _, _, _, _, _)
SendLoop(q, i, rs, throwing, payload, w, l) ==
  IF i > Len(q) THEN [wire |-> w, calls |-> l, raised |-> FALSE]
  ELSE IF rs[q[i]] # "OPEN"
  THEN SendLoop(q, i + 1, rs, throwing, payload, w, l)
  ELSE IF q[i] \in throwing
  THEN SendLoop(q, i + 1, rs, throwing, payload, w, Append(l, Sent(q[i], FALSE)))
  ELSE SendLoop(q, i + 1, rs, throwing, payload,
                Put(w, q[i], payload),
                Append(l, Sent(q[i], TRUE)))

\* The connections broadcastToChannel iterates over.
broadcastSetAll(m, channelId) ==
  LET RECURSIVE Cat(_)
      Cat(S) == IF S = {} THEN <<>>
                ELSE LET k == CHOOSE x \in S : TRUE IN m[k] \o Cat(S \ {k})
  IN Cat(DOMAIN m)
broadcastSet(m, channelId) ==
  IF channelId \in DOMAIN m THEN m[channelId] ELSE <<>>

\* broadcastToChannel(channelId, payload)
broadcastToChannel(m, channelId, rs, throwing, payload, w) ==
  SendLoop(broadcastSet(m, channelId), 1, rs, throwing, payload, w, <<>>)

\* server.on("upgrade") for a request of connection c; channelId is
\* url.searchParams.get("channel_id"), "" when absent or empty (both falsy).
\* On success wss.emit("connection") runs: isAlive = true.
UpgradeNoChannelCheck(c, path, channelId) ==
  /\ srv[c] = "NONE"
  /\ asked' = [asked EXCEPT ![c] = channelId]
  /\ IF path # "/bridge"
     THEN /\ srv' = [srv EXCEPT ![c] = "DESTROYED"]
          /\ UNCHANGED <<channelSockets, connChan, isAlive>>
     ELSE /\ srv' = [srv EXCEPT ![c] = "OPEN"]
          /\ connChan' = [connChan EXCEPT ![c] = channelId]
          /\ channelSockets' = registerChannelSocket(channelSockets, channelId, c)
          /\ isAlive' = [isAlive EXCEPT ![c] = TRUE]
  /\ UNCHANGED <<wire, pubs, hbTimer, pinged>>
UpgradeWithReplay(c, path, channelId) ==
  /\ srv[c] = "NONE"
  /\ asked' = [asked EXCEPT ![c] = channelId]
  /\ IF path # "/bridge" \/ channelId = ""
     THEN /\ srv' = [srv EXCEPT ![c] = "DESTROYED"]
          /\ UNCHANGED <<channelSockets, connChan, isAlive, wire>>
     ELSE /\ srv' = [srv EXCEPT ![c] = "OPEN"]
          /\ connChan' = [connChan EXCEPT ![c] = channelId]
          /\ channelSockets' = registerChannelSocket(channelSockets, channelId, c)
          /\ isAlive' = [isAlive EXCEPT ![c] = TRUE]
          /\ LET RECURSIVE Replay(_, _)
                 Replay(w, es) ==
                   IF es = {} THEN w
                   ELSE LET e == CHOOSE x \in es : \A y \in es : x.eid <= y.eid
                        IN Replay(Put(w, c, e), es \ {e})
             IN wire' = Replay(wire, {e \in feed : e.eid \in pubs})
  /\ UNCHANGED <<pubs, hbTimer, pinged>>
Upgrade(c, path, channelId) ==
  /\ srv[c] = "NONE"
  /\ asked' = [asked EXCEPT ![c] = channelId]
  /\ IF path # "/bridge" \/ channelId = ""
     THEN /\ srv' = [srv EXCEPT ![c] = "DESTROYED"]
          /\ UNCHANGED <<channelSockets, connChan, isAlive>>
     ELSE /\ srv' = [srv EXCEPT ![c] = "OPEN"]
          /\ connChan' = [connChan EXCEPT ![c] = channelId]
          /\ channelSockets' = registerChannelSocket(channelSockets, channelId, c)
          /\ isAlive' = [isAlive EXCEPT ![c] = TRUE]
  /\ UNCHANGED <<wire, pubs, hbTimer, pinged>>

\* A client other than the bridge asks for an upgrade; connections are
\* numbered in the order of their requests.
ClientConnects(c, path, channelId) ==
  /\ \A d \in Conns : srv[d] # "NONE" <=> d < c
  /\ Upgrade(c, path, channelId)
  /\ NoSend
  /\ UNCHANGED <<feed, now, otherVars, storeVars, junk, reqs, gateVars, queueVars, connVars>>

\* The handshake of the bridge's socket k reaches the hub.
BridgeHandshake(k) ==
  /\ sock[k] = "CONNECTING"
  /\ Upgrade(BridgeConn(k), "/bridge", CHANNEL_ID)
  /\ NoSend
  /\ UNCHANGED <<feed, now, otherVars, storeVars, junk, reqs, gateVars, queueVars, connVars>>

\* The server side of connection c starts closing (close frame received,
\* or terminate() called): readyState leaves OPEN before the close event.
SrvBeginClose(c) ==
  /\ srv[c] = "OPEN"
  /\ srv' = [srv EXCEPT ![c] = "CLOSING"]
  /\ NoSend
  /\ UNCHANGED <<feed, now, otherVars, storeVars, junk, reqs, gateVars, beatVars, queueVars, connVars, channelSockets, connChan, asked,
                 wire, pubs>>

\* ws.on("close") on the hub for connection c
SrvClose(c) ==
  /\ srv[c] \in {"OPEN", "CLOSING"}
  /\ srv' = [srv EXCEPT ![c] = "CLOSED"]
  /\ channelSockets' = closeHandler(channelSockets, connChan[c], c)
  /\ NoSend
  /\ UNCHANGED <<feed, now, otherVars, storeVars, junk, reqs, gateVars, beatVars, queueVars, connVars, connChan, asked, wire, pubs>>

\* wss.clients: the connections the server has accepted whose close event
\* has not fired.
Clients(rs) == {c \in AllConns : rs[c] \in {"OPEN", "CLOSING"}}

\* The body of the heartbeat interval, for readyStates rs and flags alive:
\* a client whose flag is false is terminated, every other client gets its
\* flag cleared and a ping (a ping on a connection that is not open sends
\* nothing).
HeartbeatSweepNoTerminate(rs, alive) ==
  [srv     |-> rs,
   isAlive |-> [c \in AllConns |-> IF c \in Clients(rs) THEN FALSE ELSE alive[c]],
   pings   |-> {c \in Clients(rs) : rs[c] = "OPEN"}]
HeartbeatSweep(rs, alive) ==
  [srv     |-> [c \in AllConns |->
                  IF c \in Clients(rs) /\ ~alive[c] /\ rs[c] = "OPEN"
                  THEN "CLOSING" ELSE rs[c]],
   isAlive |-> [c \in AllConns |->
                  IF c \in Clients(rs) /\ alive[c] THEN FALSE ELSE alive[c]],
   pings   |-> {c \in Clients(rs) : alive[c] /\ rs[c] = "OPEN"}]

\* setInterval(..., HEARTBEAT_MS) fires.
HeartbeatTick ==
  /\ hbTimer = 0
  /\ LET r == HeartbeatSweep(srv, isAlive)
     IN /\ srv' = r.srv
        /\ isAlive' = r.isAlive
        /\ pinged' = [c \in AllConns |-> c \in r.pings]
  /\ hbTimer' = HEARTBEAT_MS
  /\ NoSend
  /\ UNCHANGED <<feed, now, otherVars, storeVars, junk, reqs, gateVars, queueVars, connVars, channelSockets, connChan, asked,
                 wire, pubs>>

PongUnheeded(c) ==
  /\ srv[c] = "OPEN"
  /\ pinged[c]
  /\ isAlive' = isAlive
  /\ pinged' = [pinged EXCEPT ![c] = FALSE]
  /\ NoSend
  /\ UNCHANGED <<feed, now, otherVars, storeVars, junk, reqs, gateVars, queueVars, connVars, hubVars, hbTimer>>
\* The pong of connection c, answering the latest ping, reaches the hub:
\* ws.on("pong", heartbeat) sets isAlive = true.
Pong(c) ==
  /\ srv[c] = "OPEN"
  /\ pinged[c]
  /\ isAlive' = [isAlive EXCEPT ![c] = TRUE]
  /\ pinged' = [pinged EXCEPT ![c] = FALSE]
  /\ NoSend
  /\ UNCHANGED <<feed, now, otherVars, storeVars, junk, reqs, gateVars, queueVars, connVars, hubVars, hbTimer>>

\* A route handler calls broadcastToChannel(channelId, payload); the send of
\* the connections in `throwing` throws.  A frame sent to a socket of the
\* bridge that has closed or was aborted is lost.
Publish(channelId, payload, throwing) ==
  /\ LET r == broadcastToChannel(channelSockets, channelId, srv, throwing,
                                 payload, wire)
     IN /\ wire' = [k \in Sockets |->
                      IF sock[k] \in {"CLOSED", "ABORTING"} THEN <<>> ELSE r.wire[k]]
        /\ bcast' = [channelId |-> channelId, throwing |-> throwing,
                     calls |-> r.calls, raised |-> r.raised]
  /\ pubs' = pubs \cup {payload.eid}
  /\ UNCHANGED <<feed, now, otherVars, storeVars, junk, reqs, gateVars, beatVars, queueVars, connVars, channelSockets, srv, connChan,
                 asked>>

\* ------------------------------------------- the handlers' restore timers
\* The handlers of the timed effects end in setTimeout(<restore>, ms), ms
\* being the effect's entry of EFFECT_DURATIONS_MS.  restores holds the timers
\* made so far: the link whose handler made it, the ms left (-1: none
\* pending) and whether its callback has run.
RestoringItems == {"dramatic_zoom", "mute_streamer"}
RestoresIdle == restores = {}
RestoreTimers == {r.timer : r \in {x \in restores : x.timer >= 0}}
RestoreMade(i) == \E r \in restores : r.link = i

\* The ms the handler passes on: EFFECT_DURATIONS_MS.<item>
RestoreMs(itemId) == EffectDuration(itemId)

\* The running handler of link i reaches its setTimeout(<restore>, ms).
ScheduleRestore(i) ==
  /\ i \in 1..Len(tasks)
  /\ tasks[i].st = "running"
  /\ tasks[i].itemId \in RestoringItems
  /\ ~RestoreMade(i)
  /\ restores' = restores \cup {[link |-> i, timer |-> RestoreMs(tasks[i].itemId),
                                  fired |-> FALSE]}
  /\ NoSend
  /\ UNCHANGED <<feed, now, faults, panel, shop, junk, reqs, queueVars, connVars, hubVars,
                 beatVars, gateVars, storeVars>>

\* The restore timer of link i fires: the restoring call to OBS is made.
RestoreFire(i) ==
  /\ \E r \in restores :
       /\ r.link = i /\ r.timer = 0
       /\ restores' = (restores \ {r}) \cup {[r EXCEPT !.timer = -1, !.fired = TRUE]}
  /\ NoSend
  /\ UNCHANGED <<feed, now, faults, panel, shop, junk, reqs, queueVars, connVars, hubVars,
                 beatVars, gateVars, storeVars>>

\* A handler of a timed effect that resolves has made its restore timer (the
\* setTimeout is its last statement); one that rejects may or may not have.
RestoringSettle(i, ok) ==
  /\ i \in 1..Len(tasks)
  /\ (ok /\ tasks[i].itemId \in RestoringItems) => RestoreMade(i)
  /\ HandlerSettle(i, ok)

\* Timers that are due at the same instant run in the order they were made:
\* the restore timer of a link was made before the link's sleep(hold).
HoldElapsedInTurn(i) ==
  /\ \A r \in restores : r.link = i => r.timer # 0
  /\ HoldElapsed(i)

\* ------------------------------------------------------------------ time
HoldTimers == {tasks[i].timer : i \in {j \in 1..Len(tasks) : tasks[j].st = "holding"}}
RetryTimers == {retry[k] : k \in {j \in Sockets : retry[j] >= 0}}
BeatTimers == IF hbTimer >= 0 THEN {hbTimer} ELSE {}
PendingTimers ==
  HoldTimers \cup RetryTimers \cup BeatTimers \cup RestoreTimers \cup {clearTimer}
NextDeadline == CHOOSE t \in PendingTimers : \A u \in PendingTimers : t <= u
TickSteps == {5000}

\* d ms pass.  A due timer fires before time moves on, and time does not
\* move past the next timer.
Tick(d) ==
  /\ d > 0
  /\ \A t \in PendingTimers : t >= d
  /\ now' = Min(now + d, MaxTime)
  /\ clearTimer' = clearTimer - d
  /\ retry' = [k \in Sockets |-> IF retry[k] >= 0 THEN retry[k] - d ELSE -1]
  /\ tasks' = [i \in 1..Len(tasks) |->
                 IF tasks[i].st = "holding"
                 THEN [tasks[i] EXCEPT !.timer = @ - d,
                                       !.waited = Min(@ + d, tasks[i].hold)]
                 ELSE IF tasks[i].st \in {"done", "rejected"}
                 THEN [tasks[i] EXCEPT !.waited = Min(@ + d, tasks[i].hold)]
                 ELSE tasks[i]]
  /\ sinceRecv' = Min(sinceRecv + d, BUCKET_MS)
  /\ hbTimer' = IF hbTimer >= 0 THEN hbTimer - d ELSE hbTimer
  /\ restores' = {IF r.timer >= 0 THEN [r EXCEPT !.timer = @ - d] ELSE r :
                     r \in restores}
  /\ NoSend
  /\ UNCHANGED <<feed, recent, chain, started, received, seen, uncaught, wantWs,
                 ws, sock, hubVars, isAlive, pinged, gateVars, reqs, junk,
                 storeVars, panel, shop, faults>>

\* ------------------------------------------------------------ the inputs
U1 == Viewer("U1", "", "")
U2 == Viewer("U2", "", "")
E_zoom      == Msg(1, "redeem", CHANNEL_ID, "dramatic_zoom", U1, 1000, "")
E_stfu      == Msg(5, "redeem", CHANNEL_ID, "spongebob_stfu", U1, 1000, "")
E_mute      == Msg(19, "redeem", CHANNEL_ID, "mute_streamer", U1, 1000, "")
E_tts       == Msg(4, "redeem", CHANNEL_ID, "tts_message", U1, 1000, "")
E_unknown   == Msg(6, "redeem", CHANNEL_ID, "does_not_exist", U1, 1000, "")
E_ctor      == Msg(10, "redeem", CHANNEL_ID, "constructor", U1, 1000, "")

\* The payloads of the other routes carry no channelId; "grant", "grant_all"
\* and "mystery" carry no viewer.
NoViewer == Viewer("", "", "")
E_sell      == Msg(11, "sell", "", "dramatic_zoom", Viewer("U1", "u1", "alice"), 1000, "")
E_grant     == Msg(12, "grant", "", "dramatic_zoom", NoViewer, 1000, "")
E_refund    == Msg(13, "refund", "", "dramatic_zoom", U1, 1000, "")
E_grantAll  == Msg(14, "grant_all", "", "dramatic_zoom", NoViewer, 1000, "")
E_mystery   == Msg(15, "mystery", "", "", NoViewer, 1000, "tts_message")
E_elsewhere == Msg(16, "redeem", "other", "dramatic_zoom", U1, 1000, "")

E_alice     == Msg(7, "redeem", CHANNEL_ID, "tts_message", Viewer("", "", "alice"), 1000, "")
E_bob       == Msg(8, "redeem", CHANNEL_ID, "tts_message", Viewer("", "", "bob"), 1000, "")
E_noAt      == Msg(9, "redeem", CHANNEL_ID, "tts_message", U2, 0, "")

E_asmr      == Msg(17, "redeem", CHANNEL_ID, "streamer_asmr", U1, 1000, "")
E_vip       == Msg(18, "redeem", CHANNEL_ID, "vip_badge", U1, 1000, "")

QueueFeed == {E_zoom, E_stfu, E_tts, E_unknown}
InstantFeed == {E_asmr, E_vip, E_tts}
DedupeFeed == {E_zoom, E_alice, E_bob, E_noAt}
HubFeed == {E_zoom, E_tts}
UnknownFeed == {E_stfu, E_unknown, E_ctor}
\* Three redeem events for dramatic_zoom from one viewer whose timestamps are
\* 50 ms apart, the first at `at`; and the first timestamps considered: well
\* inside a bucket, and just below the points where Math.round steps.
Triple(at) == {Msg(21 + i, "redeem", CHANNEL_ID, "dramatic_zoom", U1, at + 50 * i, "")
                 : i \in 0..2}
TripleStarts == {900, 1000, 2950}
\* Two redeem events for dramatic_zoom from one viewer with the timestamps a and
\* b; and the timestamps considered: around the multiples of 1000.
Pair(a, b) == {Msg(31, "redeem", CHANNEL_ID, "dramatic_zoom", U1, a, ""),
               Msg(32, "redeem", CHANNEL_ID, "dramatic_zoom", U1, b, "")}
PairTimes == {1, 999, 1000, 1999, 2000, 2999, 3000}
RouterFeed == {E_zoom, E_sell, E_grant, E_grantAll, E_refund, E_mystery, E_elsewhere}

\* ------------------------------------------------------------ the routes
\* The mutating routes that publish an event, as the sequence of what each
\* awaits: "check" (authentication, validation or a lookup; on failure the
\* route answers 4xx and returns), "write" (a store mutation; a rejection
\* goes to the route's catch), "ext" (a call to StreamElements or Twitch; a
\* failure ends the route), "try" (the same inside its own try / catch) and
\* "publish" (broadcastToChannel, not awaited).
Routes == {"redeem", "sell", "grant", "refund"}
RouteStepsPublishFirst(kind) ==
  IF kind = "redeem" THEN <<"check", "check", "publish", "write", "try">>
  ELSE IF kind = "sell" THEN <<"check", "check", "publish", "write", "ext">>
  ELSE IF kind = "grant" THEN <<"check", "check", "publish", "write">>
  ELSE <<"check", "check", "publish", "write", "ext", "write">>
RouteSteps(kind) ==
  IF kind = "redeem" THEN <<"check", "check", "write", "try", "publish">>
  ELSE IF kind = "sell" THEN <<"check", "check", "write", "ext", "publish">>
  ELSE IF kind = "grant" THEN <<"check", "check", "write", "publish">>
  ELSE <<"check", "check", "write", "ext", "write", "publish">>

\* The event each route publishes.
RoutePayload(kind) ==
  IF kind = "redeem" THEN E_zoom
  ELSE IF kind = "sell" THEN E_sell
  ELSE IF kind = "grant" THEN E_grant
  ELSE E_refund

NoReq == [kind |-> "none", pc |-> 0, st |-> "none", writes |-> 0, sent |-> FALSE]
NoReqs == [r \in 1..MaxReqs |-> NoReq]

\* A request after the step it awaited ended with `ok`.
Stepped(q, ok) ==
  LET step == RouteSteps(q.kind)[q.pc]
  IN IF step = "check" THEN IF ok THEN [q EXCEPT !.pc = @ + 1]
                                 ELSE [q EXCEPT !.st = "rejected"]
     ELSE IF step = "write" THEN IF ok THEN [q EXCEPT !.pc = @ + 1, !.writes = @ + 1]
                                       ELSE [q EXCEPT !.st = "failed"]
     ELSE IF step = "ext" THEN IF ok THEN [q EXCEPT !.pc = @ + 1]
                                     ELSE [q EXCEPT !.st = "failed"]
     ELSE [q EXCEPT !.pc = @ + 1]

\* The route runs on to its next await: a broadcastToChannel that comes next
\* is called on the way, and after the last step the route answers.
AtPublish(q) ==
  q.st = "running" /\ q.pc <= Len(RouteSteps(q.kind)) /\ RouteSteps(q.kind)[q.pc] = "publish"
RunOn(q) ==
  LET p == IF AtPublish(q) THEN [q EXCEPT !.pc = @ + 1, !.sent = TRUE] ELSE q
  IN IF p.st = "running" /\ p.pc > Len(RouteSteps(p.kind))
     THEN [p EXCEPT !.st = "replied"] ELSE p

\* A request to one of the routes arrives; requests are numbered in the
\* order of their arrival.
RouteStart(r, kind) ==
  /\ reqs[r].kind = "none"
  /\ \A j \in 1..(r - 1) : reqs[j].kind # "none"
  /\ reqs' = [reqs EXCEPT ![r] = [NoReq EXCEPT !.kind = kind, !.pc = 1, !.st = "running"]]
  /\ NoSend
  /\ UNCHANGED <<feed, now, otherVars, storeVars, junk, queueVars, connVars, hubVars, beatVars, gateVars>>

\* What request r awaits ends, with success or not, and the route runs on.
RouteStep(r, ok) ==
  /\ reqs[r].st = "running"
  /\ LET q == Stepped(reqs[r], ok)
         n == RunOn(q)
     IN /\ reqs' = [reqs EXCEPT ![r] = n]
        /\ IF AtPublish(q)
           THEN LET e == RoutePayload(q.kind)
                    b == broadcastToChannel(channelSockets, CHANNEL_ID, srv, {}, e, wire)
                IN /\ wire' = [k \in Sockets |->
                                 IF sock[k] \in {"CLOSED", "ABORTING"} THEN <<>>
                                 ELSE b.wire[k]]
                   /\ bcast' = [channelId |-> CHANNEL_ID, throwing |-> {},
                                calls |-> b.calls, raised |-> b.raised]
                   /\ pubs' = pubs \cup {e.eid}
           ELSE NoSend /\ UNCHANGED <<wire, pubs>>
  /\ UNCHANGED <<feed, now, otherVars, storeVars, junk, queueVars, connVars, channelSockets, srv, connChan,
                 asked, beatVars, gateVars>>

\* ------------------------------------------------ POST /redeem and the store
\* The viewer's inventory documents for the item are numbered in the order of
\* their acquiredAt; the redemptions collection is followed by its size.  The
\* item redeemed is dramatic_zoom: it awards no points and is no mystery box,
\* so the route awaits nothing between its transaction and its broadcast.
Docs == 1..MaxDocs
NoRedeem == [st |-> "none", ref |-> 0, removed |-> FALSE, inserted |-> FALSE,
             sent |-> FALSE]
NoRedeems == [r \in 1..MaxReqs |-> NoRedeem]

\* .where("itemId", "==", itemId).orderBy("acquiredAt", "desc").limit(1):
\* the latest document, 0 for an empty snapshot.
Latest(inv) == IF inv = {} THEN 0 ELSE CHOOSE d \in inv : \A e \in inv : e <= d

\* The writes of the route's transaction on document ref: tx.delete(ref), which
\* succeeds whether or not the document still exists, and tx.set of a new
\* redemptions document.
TxWrites(inv, red, ref) ==
  [inventory |-> inv \ {ref}, redemptions |-> red + 1, removed |-> ref \in inv]

\* broadcastToChannel(channelId, {type: "redeem", ...}) of the route
RedeemBroadcast ==
  LET b == broadcastToChannel(channelSockets, CHANNEL_ID, srv, {}, E_zoom, wire)
  IN /\ wire' = [k \in Sockets |->
                   IF sock[k] \in {"CLOSED", "ABORTING"} THEN <<>> ELSE b.wire[k]]
     /\ bcast' = [channelId |-> CHANNEL_ID, throwing |-> {},
                  calls |-> b.calls, raised |-> b.raised]
     /\ pubs' = pubs \cup {E_zoom.eid}

\* A redeem request arrives and runs to its first access to the store; `ok`:
\* the token verifies and the item is known (otherwise the route answers 4xx).
\* The first copy then awaits its query, the second its transaction.
RedeemStart(r, ok) ==
  /\ redeems[r].st = "none"
  /\ \A j \in 1..(r - 1) : redeems[j].st # "none"
  /\ redeems' = [redeems EXCEPT ![r].st =
                   IF ~ok THEN "rejected" ELSE IF copy = 1 THEN "query" ELSE "tx"]
  /\ NoSend
  /\ UNCHANGED <<feed, now, otherVars, junk, reqs, queueVars, connVars, hubVars, beatVars,
                 gateVars, copy, inventory, redemptions>>

\* First copy: the query made before the transaction answers.  An empty
\* snapshot ends the request with 400; a rejection ends it with 401.
RedeemQueried(r, ok) ==
  /\ redeems[r].st = "query"
  /\ redeems' = [redeems EXCEPT ![r] =
                   IF ~ok THEN [@ EXCEPT !.st = "failed"]
                   ELSE IF inventory = {} THEN [@ EXCEPT !.st = "noitem"]
                   ELSE [@ EXCEPT !.st = "tx", !.ref = Latest(inventory)]]
  /\ NoSend
  /\ UNCHANGED <<feed, now, otherVars, junk, reqs, queueVars, connVars, hubVars, beatVars,
                 gateVars, copy, inventory, redemptions>>

\* db.runTransaction settles and the route runs on to its answer.  In the
\* first copy the transaction writes on the reference the query returned; in
\* the second it reads the latest document itself (tx.get) and throws NO_ITEM
\* on an empty snapshot.  After the commit the route broadcasts and answers.
RedeemCommitted(r, ok) ==
  /\ redeems[r].st = "tx"
  /\ LET ref == IF copy = 1 THEN redeems[r].ref ELSE Latest(inventory)
         w == TxWrites(inventory, redemptions, ref)
     IN IF ~ok
        THEN /\ redeems' = [redeems EXCEPT ![r].st = "failed"]
             /\ NoSend
             /\ UNCHANGED <<inventory, redemptions, wire, pubs>>
        ELSE IF ref = 0
        THEN /\ redeems' = [redeems EXCEPT ![r].st = "noitem"]
             /\ NoSend
             /\ UNCHANGED <<inventory, redemptions, wire, pubs>>
        ELSE /\ inventory' = w.inventory
             /\ redemptions' = w.redemptions
             /\ redeems' = [redeems EXCEPT ![r] =
                              [@ EXCEPT !.st = "replied", !.ref = ref,
                                        !.removed = w.removed,
                                        !.inserted = TRUE, !.sent = TRUE]]
             /\ RedeemBroadcast
  /\ UNCHANGED <<feed, now, otherVars, junk, reqs, queueVars, connVars, channelSockets, srv,
                 connChan, asked, beatVars, gateVars, copy>>
\* ------------------------------------------ the panel's subscription effect
\* useEffect(() => { ... }, [channelId, panelVisible]): every run of the
\* effect is an instance with its own `ws` and `closed`, kept in the order of
\* the runs; panel.live says whether the latest has not been cleaned up.  The
\* sockets are kept in the order in which they were made.  Of a socket,
\* `owner` is the instance whose connect() made it
\* and `timer` says whether the setTimeout(connect, 1500) of its onclose is
\* pending; `late` is history: the sockets made by an instance after its
\* cleanup.
PanelSockets == 1..MaxPanelSockets
NoPanel ==
  [visible |-> FALSE, live |-> FALSE, closed |-> <<>>, ws |-> <<>>,
   sock |-> <<>>, owner |-> <<>>, timer |-> <<>>, late |-> {}]
PanelIdle == panel = NoPanel

\* The panel may make another socket, and the effect may run once more.
PanelFree(p) == Len(p.sock) < MaxPanelSockets
PanelMayRun(p) == Len(p.closed) < MaxEffects

\* connect() of instance e: ws = new WebSocket(wsUrl)
PanelConnect(p, e) ==
  LET s == Len(p.sock) + 1
  IN [p EXCEPT !.sock = Append(@, "CONNECTING"), !.owner = Append(@, e),
               !.timer = Append(@, FALSE), !.ws[e] = s,
               !.late = IF p.closed[e] THEN @ \cup {s} ELSE @]

\* The cleanup of the latest instance: closed = true; if (ws) ws.close()
PanelCleanup(p) ==
  IF ~p.live THEN p
  ELSE LET e == Len(p.closed)
           s == p.ws[e]
       IN [p EXCEPT !.live = FALSE, !.closed[e] = TRUE,
                    !.sock = IF s # 0 /\ p.sock[s] \in {"CONNECTING", "OPEN"}
                             THEN [@ EXCEPT ![s] = "CLOSING"] ELSE @]

\* The body of the effect: if (!channelId || !panelVisible) return; ...
\* connect(); the channel id is set throughout.
PanelRun(p) ==
  IF ~p.visible THEN p
  ELSE PanelConnect([p EXCEPT !.closed = Append(@, FALSE), !.ws = Append(@, 0),
                               !.live = TRUE], Len(p.closed) + 1)

\* A dependency of the effect changes (panelVisible becomes v, or channelId
\* changes while v stays as it is): React runs the cleanup of the previous
\* instance and then the effect.
PanelDepsChange(v) ==
  /\ v => (PanelMayRun(panel) /\ PanelFree(panel))
  /\ v \/ panel.visible
  /\ panel' = PanelRun([PanelCleanup(panel) EXCEPT !.visible = v])
  /\ NoSend
  /\ UNCHANGED <<feed, now, faults, shop, restores, junk, reqs, queueVars, connVars, hubVars,
                 beatVars, gateVars, storeVars>>

\* ws.onopen of the panel's socket s (no handler is set)
PanelSockOpen(s) ==
  /\ s \in 1..Len(panel.sock)
  /\ panel.sock[s] = "CONNECTING"
  /\ panel' = [panel EXCEPT !.sock[s] = "OPEN"]
  /\ NoSend
  /\ UNCHANGED <<feed, now, faults, shop, restores, junk, reqs, queueVars, connVars, hubVars,
                 beatVars, gateVars, storeVars>>

\* ws.onclose of socket s: if (!closed && panelVisible) setTimeout(connect, 1500).
\* panelVisible is the value the instance was made with: true.
PanelSockClose(s) ==
  /\ s \in 1..Len(panel.sock)
  /\ panel.sock[s] \in {"CONNECTING", "OPEN", "CLOSING"}
  /\ panel' = [panel EXCEPT !.sock[s] = "CLOSED",
                            !.timer[s] = ~panel.closed[panel.owner[s]]]
  /\ NoSend
  /\ UNCHANGED <<feed, now, faults, shop, restores, junk, reqs, queueVars, connVars, hubVars,
                 beatVars, gateVars, storeVars>>

\* The timer made by the close of socket s fires: connect()
PanelRetryFire(s) ==
  /\ s \in 1..Len(panel.sock)
  /\ panel.timer[s]
  /\ PanelFree(panel)
  /\ panel' = PanelConnect([panel EXCEPT !.timer[s] = FALSE], panel.owner[s])
  /\ NoSend
  /\ UNCHANGED <<feed, now, faults, shop, restores, junk, reqs, queueVars, connVars, hubVars,
                 beatVars, gateVars, storeVars>>
\* ---------------------------------------------- the points ledger and its cache
\* shop.bal is the viewer's balance in the StreamElements ledger, shop.has /
\* shop.v / shop.fresh the viewer's entry of pointsCache (fresh: younger than
\* POINTS_TTL_MS), shop.bal0 the balance the run started with.  A request
\* is a call of addUserPointsDelta without currentKnown ("delta"), a
\* getSePoints followed by addUserPointsDelta with its result ("known"), a
\* POST /buy or a POST /sell of dramatic_zoom; `st` is what it awaits.  The
\* requests are kept in the order of their arrival.
NoShopReq == [kind |-> "none", st |-> "none", ref |-> 0, cur |-> 0,
              known |-> FALSE, amount |-> 0, pre |-> 0, ret |-> 0,
              removed |-> FALSE, credited |-> 0, added |-> FALSE, sent |-> FALSE]
NoShop == [bal |-> 0, bal0 |-> 0, has |-> FALSE, v |-> 0, fresh |-> FALSE,
           req |-> <<>>]
ShopIdle == shop = NoShop

\* A ledger holding b points; `cached`: the cache holds that value, unexpired.
Stocked(b, cached) ==
  [NoShop EXCEPT !.bal = b, !.bal0 = b, !.has = cached, !.fresh = cached,
                 !.v = IF cached THEN b ELSE 0]

\* Math.trunc of a number given in tenths
MathTrunc(tenths) ==
  IF tenths >= 0 THEN tenths \div 10 ELSE -((-tenths) \div 10)

\* The deltas callers pass, in tenths of a point
Deltas == {-COST * 10, 15, COST * 10}

\* hit && now - hit.t < POINTS_TTL_MS
CacheHit(p) == p.has /\ p.fresh

\* pointsCache.set(key, { v: x, t: Date.now() })
CacheSet(p, x) == [p EXCEPT !.has = TRUE, !.v = x, !.fresh = TRUE]

\* addUserPointsDelta after its PUT, with `base` in hand: next = base +
\* amount goes to the cache and is returned; the caller then runs on to its
\* next await (buy: the inventory add; sell: broadcast and answer).
SyncCache(p, r, base) ==
  LET next == base + p.req[r].amount
      c == CacheSet(p, next)
      k == p.req[r].kind
  IN [c EXCEPT !.req[r] =
        [@ EXCEPT !.ret = next,
                  !.st = IF k = "buy" THEN "add"
                         ELSE IF k = "sell" THEN "replied" ELSE "returned",
                  !.credited = IF k = "sell" THEN @ + p.req[r].amount ELSE @,
                  !.sent = (k = "sell")]]

\* The caller of getSePoints with its result c in hand: buy answers 400 if
\* c < item.cost; otherwise each calls addUserPointsDelta(login, amount, c),
\* which awaits its PUT.
GotPoints(p, r, c) ==
  LET k == p.req[r].kind
  IN IF k = "buy" /\ c < COST THEN [p EXCEPT !.req[r].st = "poor"]
     ELSE [p EXCEPT !.req[r] =
             [@ EXCEPT !.st = "put", !.cur = c, !.known = TRUE,
                       !.amount = IF k = "buy" THEN -COST
                                  ELSE IF k = "sell" THEN COST ELSE @]]

\* getSePoints up to its await: a cache hit returns at once, a miss awaits
\* the GET.
getSePoints(p, r) ==
  IF CacheHit(p) THEN GotPoints(p, r, p.v) ELSE [p EXCEPT !.req[r].st = "get"]

ShopKeeps ==
  UNCHANGED <<feed, now, faults, panel, restores, junk, reqs, queueVars, connVars, hubVars,
              beatVars, gateVars, storeVars>>

\* A request arrives and runs to its first await; `ok`: the token verifies,
\* the item is known and the identity is shared (otherwise 4xx).
ShopStart(r, kind, d, ok) ==
  /\ r = Len(shop.req) + 1
  /\ LET q == [NoShopReq EXCEPT !.kind = kind,
                                !.amount = IF kind \in {"delta", "known"}
                                           THEN MathTrunc(d) ELSE 0]
         p == [shop EXCEPT !.req = Append(@, q)]
     IN shop' = IF ~ok THEN [p EXCEPT !.req[r].st = "rejected"]
                ELSE IF kind = "buy" THEN [p EXCEPT !.req[r].st = "login"]
                ELSE IF kind = "sell" THEN [p EXCEPT !.req[r].st = "query"]
                ELSE IF kind = "known" THEN getSePoints(p, r)
                ELSE [p EXCEPT !.req[r].st = "put"]
  /\ NoSend
  /\ ShopKeeps

\* POST /sell: the query for the newest matching document answers.
SellQueried(r, ok) ==
  /\ r \in 1..Len(shop.req)
  /\ shop.req[r].st = "query"
  /\ shop' = IF ~ok THEN [shop EXCEPT !.req[r].st = "failed"]
             ELSE IF inventory = {} THEN [shop EXCEPT !.req[r].st = "noitem"]
             ELSE [shop EXCEPT !.req[r].st = "tx", !.req[r].ref = Latest(inventory)]
  /\ NoSend
  /\ ShopKeeps

\* POST /sell: db.runTransaction(tx => tx.delete(snap.docs[0].ref)) settles;
\* the delete succeeds whether or not the document still exists.  The route
\* then awaits getLoginFromUserId.
SellCommitted(r, ok) ==
  /\ r \in 1..Len(shop.req)
  /\ shop.req[r].st = "tx"
  /\ IF ~ok
     THEN /\ shop' = [shop EXCEPT !.req[r].st = "failed"]
          /\ UNCHANGED inventory
     ELSE /\ inventory' = inventory \ {shop.req[r].ref}
          /\ shop' = [shop EXCEPT !.req[r].st = "login",
                                  !.req[r].removed = shop.req[r].ref \in inventory]
  /\ NoSend
  /\ UNCHANGED <<feed, now, faults, panel, restores, junk, reqs, queueVars, connVars, hubVars,
                 beatVars, gateVars, copy, redemptions, redeems>>

\* getLoginFromUserId answers: without a login buy and sell answer 403;
\* with one they call getSePoints.
LoginAnswered(r, ok) ==
  /\ r \in 1..Len(shop.req)
  /\ shop.req[r].st = "login"
  /\ shop' = IF ~ok THEN [shop EXCEPT !.req[r].st = "nologin"]
             ELSE getSePoints(shop, r)
  /\ NoSend
  /\ ShopKeeps

\* The GET of getSePoints answers: the balance goes to the cache and is
\* returned, to the route ("get") or to addUserPointsDelta, which called it
\* after its PUT for want of currentKnown ("base").
SeGetAnswered(r, ok) ==
  /\ r \in 1..Len(shop.req)
  /\ shop.req[r].st \in {"get", "base"}
  /\ LET c == CacheSet(shop, shop.bal)
     IN shop' = IF ~ok THEN [shop EXCEPT !.req[r].st = "failed"]
                ELSE IF shop.req[r].st = "get" THEN GotPoints(c, r, shop.bal)
                ELSE SyncCache(c, r, shop.bal)
  /\ NoSend
  /\ ShopKeeps

\* broadcastToChannel(channelId, {type: "sell", ...}) of the route
SellBroadcast ==
  LET b == broadcastToChannel(channelSockets, CHANNEL_ID, srv, {}, E_sell, wire)
  IN /\ wire' = [k \in Sockets |->
                   IF sock[k] \in {"CLOSED", "ABORTING"} THEN <<>> ELSE b.wire[k]]
     /\ bcast' = [channelId |-> CHANNEL_ID, throwing |-> {},
                  calls |-> b.calls, raised |-> b.raised]
     /\ pubs' = pubs \cup {E_sell.eid}

\* The PUT of addUserPointsDelta answers: the ledger has added the amount.
\* base is currentKnown if it was given, otherwise the result of getSePoints
\* called now.
SePutAnswered(r, ok) ==
  /\ r \in 1..Len(shop.req)
  /\ shop.req[r].st = "put"
  /\ LET q == shop.req[r]
         p == [shop EXCEPT !.bal = @ + q.amount, !.req[r].pre = shop.bal]
     IN /\ shop' = IF ~ok THEN [shop EXCEPT !.req[r].st = "failed"]
                   ELSE IF q.known THEN SyncCache(p, r, q.cur)
                   ELSE IF CacheHit(p) THEN SyncCache(p, r, p.v)
                   ELSE [p EXCEPT !.req[r].st = "base"]
        /\ IF ok /\ q.known /\ q.kind = "sell"
           THEN SellBroadcast
           ELSE NoSend /\ UNCHANGED <<wire, pubs>>
  /\ UNCHANGED <<feed, now, faults, panel, restores, junk, reqs, queueVars, connVars, channelSockets,
                 srv, connChan, asked, beatVars, gateVars, storeVars>>

\* POST /buy: the add to the inventory collection settles and the route
\* answers.
BuyAdded(r, ok) ==
  /\ r \in 1..Len(shop.req)
  /\ shop.req[r].st = "add"
  /\ IF ~ok
     THEN /\ shop' = [shop EXCEPT !.req[r].st = "failed"]
          /\ UNCHANGED inventory
     ELSE /\ inventory' = inventory \cup {Latest(inventory) + 1}
          /\ shop' = [shop EXCEPT !.req[r].st = "replied", !.req[r].added = TRUE]
  /\ NoSend
  /\ UNCHANGED <<feed, now, faults, panel, restores, junk, reqs, queueVars, connVars, hubVars,
                 beatVars, gateVars, copy, redemptions, redeems>>

\* POINTS_TTL_MS pass since the cache entry was written.
CacheAge ==
  /\ CacheHit(shop)
  /\ shop' = [shop EXCEPT !.fresh = FALSE]
  /\ NoSend
  /\ ShopKeeps

\* ------------------------------------------------------ initial states
BridgeIdle ==
  /\ recent = {}
  /\ clearTimer = CLEAR_MS
  /\ tasks = <<>>
  /\ chain = 0
  /\ started = <<>>
  /\ received = <<>>
  /\ sinceRecv = BUCKET_MS
  /\ seen = {}
  /\ uncaught = FALSE
  /\ junk = 0
  /\ retry = [k \in Sockets |-> -1]

\* The components followed on their own, before anything happened in them.
OthersIdle == PanelIdle /\ ShopIdle /\ RestoresIdle /\ faults = 0

InitBridge == BridgeIdle /\ OthersIdle

HubIdle ==
  /\ channelSockets = EmptyMap
  /\ srv = [c \in AllConns |-> "NONE"]
  /\ connChan = [c \in AllConns |-> ""]
  /\ asked = [c \in AllConns |-> "?"]
  /\ isAlive = [c \in AllConns |-> FALSE]
  /\ pinged = [c \in AllConns |-> FALSE]
  /\ hbTimer = -1
  /\ wire = [k \in Sockets |-> <<>>]
  /\ pubs = {}
  /\ reqs = NoReqs
  /\ bcast = NoBcast

\* The bridge at start-up: not connected, gating not yet evaluated.
\* OBS after the initial snapshot of armObsGating, no evaluation pending.
GateIdle(live) ==
  /\ stream = live
  /\ record = FALSE
  /\ changes = 0
  /\ notes = 0
  /\ evals = <<>>

NotConnected ==
  /\ wantWs = FALSE
  /\ ws = 0
  /\ sock = Unmade(MaxSockets)
  /\ GateIdle(FALSE)

\* The bridge with its first socket open on the hub.
Connected ==
  /\ wantWs = TRUE
  /\ ws = 1
  /\ sock = [Unmade(MaxSockets) EXCEPT ![1] = "OPEN"]
  /\ GateIdle(TRUE)

\* The hub with the bridge's first socket registered and nothing else.
HubWithBridge ==
  /\ channelSockets = registerChannelSocket(EmptyMap, CHANNEL_ID, BridgeConn(1))
  /\ srv = [c \in AllConns |-> IF c = BridgeConn(1) THEN "OPEN" ELSE "NONE"]
  /\ connChan = [c \in AllConns |-> IF c = BridgeConn(1) THEN CHANNEL_ID ELSE ""]
  /\ asked = [c \in AllConns |-> IF c = BridgeConn(1) THEN CHANNEL_ID ELSE "?"]
  /\ isAlive = [c \in AllConns |-> c = BridgeConn(1)]
  /\ pinged = [c \in AllConns |-> FALSE]
  /\ hbTimer = -1
  /\ wire = [k \in Sockets |-> <<>>]
  /\ pubs = {}
  /\ reqs = NoReqs
  /\ bcast = NoBcast

\* No redeem request has been made; the store is not followed.
NoStore ==
  /\ copy = 1
  /\ inventory = {}
  /\ redemptions = 0
  /\ redeems = NoRedeems

InitHub == HubIdle /\ NoStore
InitHubWithBridge == HubWithBridge /\ NoStore

\* ---- the execution queue and the deduplicator, on an open socket
InitQueue ==
  /\ now = 0
  /\ InitBridge /\ Connected /\ feed = QueueFeed
  /\ InitHubWithBridge

NextQueue ==
  \/ \E m \in feed : EnvMessage(1, m)
  \/ \E i \in 1..MaxMsgs, ok \in BOOLEAN : HandlerSettle(i, ok)
  \/ \E i \in 1..MaxMsgs : HoldElapsed(i)
  \/ ClearRecent
  \/ \E d \in TickSteps \cup {NextDeadline} : Tick(d)

SpecQueue == InitQueue /\ [][NextQueue]_vars

\* ---- the same, fed with events that differ in viewer and timestamp only
InitDedupe ==
  /\ now = 0
  /\ InitBridge /\ Connected /\ feed = DedupeFeed
  /\ InitHubWithBridge

SpecDedupe == InitDedupe /\ [][NextQueue]_vars

\* ---- the same, fed with item ids that name no registered handler
InitUnknown ==
  /\ now = MaxTime
  /\ InitBridge /\ Connected /\ feed = UnknownFeed
  /\ InitHubWithBridge

SpecUnknown == InitUnknown /\ [][NextQueue]_vars

\* ---- the same, fed with every type of event the hub publishes
InitRouter ==
  /\ now = MaxTime
  /\ InitBridge /\ Connected /\ feed = RouterFeed
  /\ InitHubWithBridge

SpecRouter == InitRouter /\ [][NextQueue]_vars

\* ---- the same, fed with frames that are not the JSON text of an object
InitMalformed ==
  /\ now = MaxTime
  /\ InitBridge /\ Connected /\ feed = {E_zoom}
  /\ InitHubWithBridge

NextMalformed ==
  \/ NextQueue
  \/ \E data \in Malformed : EnvData(1, data)

SpecMalformed == InitMalformed /\ [][NextMalformed]_vars

\* ---- the same, fed with three events 50 ms apart
InitTriple ==
  /\ now = MaxTime
  /\ InitBridge /\ Connected /\ feed \in {Triple(at) : at \in TripleStarts}
  /\ InitHubWithBridge

SpecTriple == InitTriple /\ [][NextQueue]_vars

\* ---- the same, fed with events for items that have no hold
InitInstant ==
  /\ now = MaxTime
  /\ InitBridge /\ Connected /\ feed \in {InstantFeed, {E_asmr, E_zoom, E_tts}}
  /\ InitHubWithBridge

SpecInstant == InitInstant /\ [][NextQueue]_vars

\* ---- the same, fed with two events that differ in their timestamps only
InitPair ==
  /\ now = MaxTime
  /\ InitBridge /\ Connected
  /\ feed \in {Pair(p[1], p[2]) : p \in {q \in PairTimes \X PairTimes : q[1] < q[2]}}
  /\ InitHubWithBridge

SpecPair == InitPair /\ [][NextQueue]_vars

\* ---- the hub alone, with clients that connect, close and throw
InitFanout == now = 0 /\ InitBridge /\ NotConnected /\ feed = {E_zoom} /\ InitHub

\* In one broadcast the send of at most one open connection throws.
OneThrows == {{}} \cup {{c} : c \in {d \in Conns : srv[d] = "OPEN"}}

NextFanout ==
  \/ \E c \in Conns, ch \in Channels \cup {""} : ClientConnects(c, "/bridge", ch)
  \/ \E c \in Conns : ClientConnects(c, "/", CHANNEL_ID)
  \/ \E c \in Conns : SrvBeginClose(c)
  \/ \E c \in Conns : SrvClose(c)
  \/ \E ch \in Channels, e \in feed, th \in OneThrows : Publish(ch, e, th)

SpecFanout == InitFanout /\ [][NextFanout]_vars

\* ---- the hub alone, with clients that connect and close, and no send that
\* ---- throws
NextClosing ==
  \/ \E c \in Conns, ch \in Channels : ClientConnects(c, "/bridge", ch)
  \/ \E c \in Conns : SrvBeginClose(c)
  \/ \E c \in Conns : SrvClose(c)
  \/ \E ch \in Channels, e \in feed : Publish(ch, e, {})

SpecClosing == InitFanout /\ [][NextClosing]_vars
\* ---- the hub alone, with its heartbeat running
InitHeartbeat ==
  /\ now = MaxTime
  /\ InitBridge /\ NotConnected /\ feed = {E_zoom}
  /\ channelSockets = EmptyMap
  /\ srv = [c \in AllConns |-> "NONE"]
  /\ connChan = [c \in AllConns |-> ""]
  /\ asked = [c \in AllConns |-> "?"]
  /\ isAlive = [c \in AllConns |-> FALSE]
  /\ pinged = [c \in AllConns |-> FALSE]
  /\ hbTimer = HEARTBEAT_MS
  /\ wire = [k \in Sockets |-> <<>>]
  /\ pubs = {}
  /\ reqs = NoReqs
  /\ bcast = NoBcast
  /\ NoStore

\* The connections that come and go while the heartbeat is observed.
BeatConns == 1..MaxBeatConns

NextHeartbeat ==
  \/ \E c \in BeatConns, ch \in Channels : ClientConnects(c, "/bridge", ch)
  \/ \E c \in BeatConns : Pong(c)
  \/ HeartbeatTick
  \/ \E c \in BeatConns : SrvClose(c)
  \/ ClearRecent
  \/ Tick(NextDeadline)

SpecHeartbeat == InitHeartbeat /\ [][NextHeartbeat]_vars

\* ---- hub and bridge together: gating, reconnects, publication, delivery
\* Every event the hub publishes carries `at`, so the bridge never reads its
\* clock: the run starts past the horizon of `now`.
InitSystem ==
  /\ now = MaxTime
  /\ InitBridge /\ NotConnected /\ feed = HubFeed /\ InitHub

\* The hub publishes event e, which it has not published before.
PublishOnce(e) ==
  /\ e.eid \notin pubs
  /\ Publish(CHANNEL_ID, e, {})

NextSystem ==
  \/ \E b \in BOOLEAN : UpdateWantWs(b)
  \/ \E k \in Sockets : BridgeHandshake(k)
  \/ \E k \in Sockets : SockOpen(k)
  \/ \E k \in Sockets : SockClose(k)
  \/ \E k \in Sockets : RetryFire(k)
  \/ \E k \in Sockets : SrvClose(BridgeConn(k))
  \/ \E e \in feed : PublishOnce(e)
  \/ \E k \in Sockets : Deliver(k)
  \/ \E i \in 1..Cardinality(feed), ok \in BOOLEAN : HandlerSettle(i, ok)
  \/ \E i \in 1..Cardinality(feed) : HoldElapsed(i)
  \/ ClearRecent
  \/ Tick(NextDeadline)

SpecSystem == InitSystem /\ [][NextSystem]_vars


\* ---- the same, with a single event: connects, closes, retries, late
\* ---- subscription
InitReconnect ==
  /\ now = MaxTime
  /\ InitBridge /\ NotConnected /\ feed = {E_zoom} /\ InitHub

SpecReconnect == InitReconnect /\ [][NextSystem]_vars

\* ---- the same under the scheduling of the event loop: a timer that is due
\* ---- fires, and time passes
FairReconnect ==
  /\ WF_vars(\E k \in Sockets : RetryFire(k))
  /\ WF_vars(\E i \in 1..Cardinality(feed) : HoldElapsed(i))
  /\ WF_vars(ClearRecent)
  /\ WF_vars(Tick(NextDeadline))

SpecReconnectFair == InitReconnect /\ [][NextSystem]_vars /\ FairReconnect
\* ---- the connection alone, over more sockets: closes, gating flips and the
\* ---- retry timers they leave behind
InitBackoff ==
  /\ now = MaxTime
  /\ InitBridge /\ feed = {E_zoom} /\ InitHub
  /\ wantWs = FALSE
  /\ ws = 0
  /\ sock = Unmade(MaxRedials)
  /\ GateIdle(FALSE)

NextBackoff ==
  \/ \E b \in BOOLEAN : UpdateWantWs(b)
  \/ \E k \in Sockets : BridgeHandshake(k)
  \/ \E k \in Sockets : SockOpen(k)
  \/ \E k \in Sockets : SockClose(k)
  \/ \E k \in Sockets : RetryFire(k)
  \/ \E k \in Sockets : SrvClose(BridgeConn(k))
  \/ ClearRecent
  \/ Tick(NextDeadline)

SpecBackoff == InitBackoff /\ [][NextBackoff]_vars
\* ---- the queue and the connection together: events arrive on whichever
\* ---- socket is open while sockets close, reconnect and the gating flips
InitCancel ==
  /\ now = MaxTime
  /\ InitBridge /\ Connected /\ feed = {E_zoom, E_stfu}
  /\ InitHubWithBridge

\* The environment hands over event m, which the bridge has not received yet.
EnvOnce(k, m) ==
  /\ \A i \in 1..Len(received) : received[i] # m
  /\ EnvMessage(k, m)

NextCancel ==
  \/ \E k \in Sockets, m \in feed : EnvOnce(k, m)
  \/ \E i \in 1..MaxMsgs, ok \in BOOLEAN : HandlerSettle(i, ok)
  \/ \E i \in 1..MaxMsgs : HoldElapsed(i)
  \/ \E b \in BOOLEAN : UpdateWantWs(b)
  \/ \E k \in Sockets : BridgeHandshake(k)
  \/ \E k \in Sockets : SockOpen(k)
  \/ \E k \in Sockets : SockClose(k)
  \/ \E k \in Sockets : RetryFire(k)
  \/ ClearRecent
  \/ Tick(NextDeadline)

SpecCancel == InitCancel /\ [][NextCancel]_vars
\* ---- the bridge's gating on the outputs of OBS
InitGating ==
  /\ now = MaxTime
  /\ InitBridge /\ NotConnected /\ feed = {E_zoom} /\ InitHub

NextGating ==
  \/ \E b \in BOOLEAN : ObsChange(b)
  \/ Notified
  \/ \E i \in 1..MaxEvals, q \in Queries : ObsReads(i, q)
  \/ \E i \in 1..MaxEvals, q \in Queries : Answered(i, q)
  \/ \E k \in Sockets : BridgeHandshake(k)
  \/ \E k \in Sockets : SockOpen(k)
  \/ \E k \in Sockets : SockClose(k)
  \/ \E k \in Sockets : RetryFire(k)
  \/ \E k \in Sockets : SrvClose(BridgeConn(k))
  \/ ClearRecent
  \/ Tick(NextDeadline)

SpecGating == InitGating /\ [][NextGating]_vars

\* ---- the hub's routes, with the bridge subscribed
InitRoutes ==
  /\ now = MaxTime
  /\ InitBridge /\ Connected /\ feed = {E_zoom}
  /\ InitHubWithBridge

NextRoutes ==
  \/ \E r \in 1..MaxReqs, kind \in Routes : RouteStart(r, kind)
  \/ \E r \in 1..MaxReqs, ok \in BOOLEAN : RouteStep(r, ok)

SpecRoutes == InitRoutes /\ [][NextRoutes]_vars

\* ---- POST /redeem on a stocked inventory, under either copy of the source
InitRedeem ==
  /\ now = MaxTime
  /\ InitBridge /\ Connected /\ feed = {E_zoom}
  /\ HubWithBridge
  /\ copy \in {1, 2}
  /\ inventory \in {1..n : n \in 0..MaxDocs}
  /\ redemptions = 0
  /\ redeems = NoRedeems

NextRedeem ==
  \/ \E r \in 1..MaxReqs, ok \in BOOLEAN : RedeemStart(r, ok)
  \/ \E r \in 1..MaxReqs, ok \in BOOLEAN : RedeemQueried(r, ok)
  \/ \E r \in 1..MaxReqs, ok \in BOOLEAN : RedeemCommitted(r, ok)

SpecRedeem == InitRedeem /\ [][NextRedeem]_vars
\* ---- the panel's subscription effect
InitPanel ==
  /\ now = MaxTime
  /\ InitBridge /\ NotConnected /\ feed = {E_zoom} /\ InitHub

NextPanel ==
  \/ \E v \in BOOLEAN : PanelDepsChange(v)
  \/ \E s \in PanelSockets : PanelSockOpen(s)
  \/ \E s \in PanelSockets : PanelSockClose(s)
  \/ \E s \in PanelSockets : PanelRetryFire(s)

SpecPanel == InitPanel /\ [][NextPanel]_vars
\* ---- the points ledger: calls of addUserPointsDelta, with and without
\* ---- currentKnown, on a cache that holds the balance or nothing
ShopOnHub ==
  /\ now = MaxTime
  /\ BridgeIdle /\ PanelIdle /\ RestoresIdle /\ faults = 0
  /\ Connected /\ feed = {E_zoom}
  /\ HubWithBridge
  /\ copy = 1 /\ redemptions = 0 /\ redeems = NoRedeems

InitPoints ==
  /\ ShopOnHub
  /\ inventory = {}
  /\ shop \in {Stocked(b, c) : b \in {0, COST}, c \in BOOLEAN}

NextPoints ==
  \/ \E r \in 1..MaxReqs, k \in {"delta", "known"}, d \in Deltas, ok \in BOOLEAN :
       ShopStart(r, k, d, ok)
  \/ \E r \in 1..MaxReqs, ok \in BOOLEAN : SeGetAnswered(r, ok)
  \/ \E r \in 1..MaxReqs, ok \in BOOLEAN : SePutAnswered(r, ok)
  \/ CacheAge

SpecPoints == InitPoints /\ [][NextPoints]_vars

\* ---- POST /sell on a stocked inventory
InitSell ==
  /\ ShopOnHub
  /\ inventory \in {1..n : n \in 0..MaxDocs}
  /\ shop \in {Stocked(b, c) : b \in {0, COST}, c \in BOOLEAN}

NextSell ==
  \/ \E r \in 1..MaxReqs, ok \in BOOLEAN : ShopStart(r, "sell", 0, ok)
  \/ \E r \in 1..MaxReqs, ok \in BOOLEAN : SellQueried(r, ok)
  \/ \E r \in 1..MaxReqs, ok \in BOOLEAN : SellCommitted(r, ok)
  \/ \E r \in 1..MaxReqs, ok \in BOOLEAN : LoginAnswered(r, ok)
  \/ \E r \in 1..MaxReqs, ok \in BOOLEAN : SeGetAnswered(r, ok)
  \/ \E r \in 1..MaxReqs, ok \in BOOLEAN : SePutAnswered(r, ok)
  \/ CacheAge

SpecSell == InitSell /\ [][NextSell]_vars

\* ---- POST /buy by a viewer who holds some points
InitBuy ==
  /\ ShopOnHub
  /\ inventory = {}
  /\ shop \in {Stocked(b, c) : b \in {0, COST, 2 * COST}, c \in BOOLEAN}

NextBuy ==
  \/ \E r \in 1..MaxReqs, ok \in BOOLEAN : ShopStart(r, "buy", 0, ok)
  \/ \E r \in 1..MaxReqs, ok \in BOOLEAN : LoginAnswered(r, ok)
  \/ \E r \in 1..MaxReqs, ok \in BOOLEAN : SeGetAnswered(r, ok)
  \/ \E r \in 1..MaxReqs, ok \in BOOLEAN : SePutAnswered(r, ok)
  \/ \E r \in 1..MaxReqs, ok \in BOOLEAN : BuyAdded(r, ok)
  \/ CacheAge

SpecBuy == InitBuy /\ [][NextBuy]_vars
\* ---- the queue fed with two timed effects whose handlers make restore
\* ---- timers, each received once
HandlerSteps == {1000}
InitRestore ==
  /\ now = MaxTime
  /\ InitBridge /\ Connected /\ feed = {E_zoom, E_mute}
  /\ InitHubWithBridge

NextRestore ==
  \/ \E m \in feed : EnvOnce(1, m)
  \/ \E i \in 1..MaxMsgs : ScheduleRestore(i)
  \/ \E i \in 1..MaxMsgs, ok \in BOOLEAN : RestoringSettle(i, ok)
  \/ \E i \in 1..MaxMsgs : RestoreFire(i)
  \/ \E i \in 1..MaxMsgs : HoldElapsedInTurn(i)
  \/ ClearRecent
  \/ \E d \in HandlerSteps \cup {NextDeadline} : Tick(d)

SpecRestore == InitRestore /\ [][NextRestore]_vars
\* ---- the same, with status queries that fail
NextGatingFaults ==
  \/ NextGating
  \/ \E i \in 1..MaxEvals, q \in Queries : QueryFails(i, q)

SpecGatingFaults == InitGating /\ [][NextGatingFaults]_vars
\* --------------------------------------------------- the queue, with fairness
\* The event loop runs every due timer callback and time passes; a handler that
\* was invoked settles (the premise of the progress property).  The events fed
\* carry `at`, so the clock is never read: the run starts past its horizon.
InitQueueFair ==
  /\ now = MaxTime
  /\ InitBridge /\ Connected /\ feed = {E_zoom, E_tts}
  /\ InitHubWithBridge

FairQueue ==
  /\ WF_vars(\E i \in 1..MaxMsgs, ok \in BOOLEAN : HandlerSettle(i, ok))
  /\ WF_vars(\E i \in 1..MaxMsgs : HoldElapsed(i))
  /\ WF_vars(ClearRecent)
  /\ WF_vars(\E d \in TickSteps \cup {NextDeadline} : Tick(d))

SpecQueueFair == InitQueueFair /\ [][NextQueue]_vars /\ FairQueue


\* ===================================================== properties: the queue
InFlight(i) == tasks[i].st = "running"
Busy(i) == tasks[i].st \in {"running", "holding"}
Invoked(i) == tasks[i].startAt >= 0

\* C1: at any instant at most one effect handler is in flight (invoked and
\* not yet settled); moreover at most one link of the chain is past its
\* invocation and before the end of its hold.
C1_AtMostOneInFlight ==
  /\ Cardinality({i \in 1..Len(tasks) : InFlight(i)}) <= 1
  /\ Cardinality({i \in 1..Len(tasks) : Busy(i)}) <= 1

\* C1 witness: a handler is in flight while two accepted events wait behind it.
C1_Witness ==
  /\ Len(tasks) >= 3
  /\ InFlight(1)
  /\ tasks[2].st = "waiting"
  /\ tasks[3].st = "waiting"

\* C2: handlers are invoked in the order their events were accepted: the
\* invocation history is increasing in receipt number, and no event is invoked
\* while an event accepted earlier still waits.
C2_FifoOrder ==
  /\ \A a, b \in 1..Len(started) : a < b => started[a] < started[b]
  /\ \A i, j \in 1..Len(tasks) : (i < j /\ Invoked(j)) => Invoked(i)

\* C2 witness: three accepted events, all three invoked, the last two after
\* having waited.
C2_Witness ==
  /\ Len(started) = 3
  /\ Len(tasks) = 3
  /\ tasks[2].startAt > tasks[1].startAt
  /\ tasks[3].startAt > tasks[2].startAt

\* The sum of the holds of the first n links.
RECURSIVE HoldSum(_, _)
HoldSum(ts, n) == IF n = 0 THEN 0 ELSE ts[n].hold + HoldSum(ts, n - 1)

\* C3: the handler of an accepted event is not invoked before the handler of
\* the event accepted before it has settled and that event's hold has fully
\* elapsed afterwards; so the N-th handler starts no earlier than the sum of
\* the holds of the N-1 events before it (stated for starts within the horizon of the clock).
C3_HoldBeforeNext ==
  \A j \in 2..Len(tasks) :
    Invoked(j) =>
      /\ tasks[j - 1].st \in {"done", "rejected"}
      /\ Invoked(j - 1)
      /\ tasks[j - 1].waited = tasks[j - 1].hold
      /\ tasks[j].startAt < MaxTime =>
           tasks[j].startAt >= tasks[1].startAt + HoldSum(tasks, j - 1)

\* C3 witness: the third handler runs, started while the clock was exact,
\* after two events with a positive hold.
C3_Witness ==
  /\ Len(tasks) >= 3
  /\ InFlight(3)
  /\ tasks[3].startAt < MaxTime
  /\ tasks[1].hold > 0
  /\ tasks[2].hold > 0

\* C4: a handler that throws or rejects is caught at the queue boundary: no
\* link of the chain is ever rejected and no rejection is left unhandled, the
\* hold of the failed event still elapses in full, and the event accepted
\* next has its handler invoked.
C4_FailureContained ==
  /\ ~uncaught
  /\ \A i \in 1..Len(tasks) :
       /\ tasks[i].st # "rejected"
       /\ (tasks[i].failed /\ tasks[i].st = "done") =>
            /\ tasks[i].waited = tasks[i].hold
            /\ i < Len(tasks) => Invoked(i + 1)
       /\ tasks[i].st = "done" => Invoked(i)

\* C4 witness: a handler with a positive hold failed, and the handler of the
\* next event is in flight.
C4_Witness ==
  \E i \in 1..Len(tasks) :
    /\ tasks[i].failed
    /\ tasks[i].hold > 0
    /\ tasks[i].st = "done"
    /\ i < Len(tasks)
    /\ InFlight(i + 1)

\* C5: the queue never halts for good: provided invoked handlers settle, every
\* accepted event has its handler invoked and its link completes, whatever
\* the handlers of earlier events did.
C5_QueueNeverHalts ==
  \A i \in 1..MaxMsgs :
    (Len(tasks) >= i) ~> (Len(tasks) >= i /\ Invoked(i) /\ tasks[i].st = "done")

\* C5 witness: the link of an event completed after the handler of an
\* earlier event had failed.
C5_Witness ==
  \E i, j \in 1..Len(tasks) :
    /\ i < j
    /\ tasks[i].failed
    /\ Invoked(j)
    /\ tasks[j].st = "done"


\* ============================================== properties: the deduplicator
\* This step hands message m to the message handler.
Receipt(m) == received' = Append(received, m)

\* The step leaves the queue and the dedupe set as they were.
QueueAndRecentUnchanged ==
  /\ tasks' = tasks
  /\ chain' = chain
  /\ started' = started
  /\ recent' = recent

\* C6 as stated: a redeem event that carries a timestamp and is delivered
\* again less than BUCKET_MS after its previous delivery changes neither the
\* queue nor the dedupe set.
C6_Original ==
  [][\A m \in feed :
       (/\ Receipt(m)
        /\ m.at # 0
        /\ Len(received) > 0
        /\ received[Len(received)] = m
        /\ sinceRecv < BUCKET_MS) => QueueAndRecentUnchanged]_vars

\* C6 amended: a redeem event delivered again while the dedupe set has not
\* been cleared since a delivery of the identical event in the same timestamp
\* bucket changes neither the queue nor the dedupe set; and the first event
\* delivered after a clear, if its item is known, enqueues exactly one task.
C6_DuplicateDropped ==
  [][\A m \in feed :
       Receipt(m) =>
         /\ [msg |-> m, bucket |-> Bucket(m, now)] \in seen
              => QueueAndRecentUnchanged
         /\ (seen = {} /\ m.itemId \in HANDLERS) =>
              /\ Len(tasks') = Len(tasks) + 1
              /\ tasks'[Len(tasks')].eid = m.eid
              /\ recent' # recent]_vars

\* C6 witness: the same event was delivered twice in a row with no clear in
\* between; one task was enqueued and one handler invoked.
C6_Witness ==
  /\ Len(received) = 2
  /\ received[1] = received[2]
  /\ received[1].itemId \in HANDLERS
  /\ Cardinality(seen) = 1
  /\ Len(tasks) = 1
  /\ Len(started) = 1

\* The events a and b have the same type, item and timestamp and differ in
\* the viewer identifier.
DifferOnlyInViewer(a, b) ==
  /\ a.type = b.type
  /\ a.channelId = b.channelId
  /\ a.itemId = b.itemId
  /\ a.at = b.at
  /\ a.prizeId = b.prizeId
  /\ a.viewer # b.viewer

\* C7 as stated: when the only two events received are redeem events for a
\* known item that differ only in the viewer identifier, both are accepted:
\* two tasks are enqueued, one for each.
C7_DistinctViewersBothAccepted ==
  (/\ Len(received) = 2
   /\ received[1].itemId \in HANDLERS
   /\ DifferOnlyInViewer(received[1], received[2]))
  => /\ Len(tasks) = 2
     /\ tasks[1].eid = received[1].eid
     /\ tasks[2].eid = received[2].eid


\* ================================================ properties: hub and bridge
\* The links of the chain made for event e, and those whose handler was invoked.
TasksOf(e) == {i \in 1..Len(tasks) : tasks[i].eid = e.eid}
InvocationsOf(e) == {i \in TasksOf(e) : Invoked(i)}

\* C8: across connects, disconnects, retries and gating flips, an event the
\* hub published once causes at most one handler invocation on the bridge, and
\* every task and every handler invocation belongs to a redeem message the
\* bridge received, which the hub had published.
C8_AtMostOnce ==
  /\ \A e \in feed : Cardinality(TasksOf(e)) <= 1 /\ Cardinality(InvocationsOf(e)) <= 1
  /\ \A i \in 1..Len(tasks) :
       /\ tasks[i].rid \in 1..Len(received)
       /\ received[tasks[i].rid].eid = tasks[i].eid
       /\ received[tasks[i].rid].type = "redeem"
       /\ tasks[i].eid \in pubs
  /\ \A a \in 1..Len(started) :
       \E i \in 1..Len(tasks) : tasks[i].rid = started[a] /\ Invoked(i)

\* C8 witness: two published events, one received on the first socket and one
\* on the second socket after a reconnect; both handlers were invoked.
C8_Witness ==
  /\ sock[1] = "CLOSED"
  /\ sock[2] = "OPEN"
  /\ Len(received) = 2
  /\ Len(tasks) = 2
  /\ Invoked(1)
  /\ Invoked(2)


\* ======================================================= properties: fan-out
\* The calls of send on connection c in the broadcast of this step.
CallsTo(c) == {i \in 1..Len(bcast.calls) : bcast.calls[i].conn = c}
\* Connection c is registered for channel X and open.
Subscribed(c, X) == connChan[c] = X /\ srv[c] = "OPEN"

\* C9: broadcastToChannel(X, e) calls send exactly once on every connection
\* registered for X and open, and on no other connection.
C9_FanOutExact ==
  bcast # NoBcast =>
    \A c \in AllConns :
      Cardinality(CallsTo(c)) = IF Subscribed(c, bcast.channelId) THEN 1 ELSE 0

\* C9 witness: a broadcast on the bridge's channel reached three open
\* subscribers while a subscriber of another channel was open.
C9_Witness ==
  /\ bcast.channelId = CHANNEL_ID
  /\ Len(bcast.calls) = 3
  /\ \A i \in 1..3 : bcast.calls[i].ok
  /\ \E c \in Conns : Subscribed(c, "other")

\* C10: when the send of one subscriber throws, every other open subscriber
\* of the channel is still sent the event, once, and the broadcast does not
\* raise to its caller.
C10_ThrowIsolated ==
  bcast # NoBcast =>
    /\ ~bcast.raised
    /\ \A c \in AllConns :
         (Subscribed(c, bcast.channelId) /\ c \notin bcast.throwing) =>
           /\ Cardinality(CallsTo(c)) = 1
           /\ \A i \in CallsTo(c) : bcast.calls[i].ok

\* C10 witness: the send of the first of three subscribers threw and the two
\* after it were sent the event.
C10_Witness ==
  /\ Len(bcast.calls) = 3
  /\ ~bcast.calls[1].ok
  /\ bcast.calls[1].conn \in bcast.throwing
  /\ bcast.calls[2].ok
  /\ bcast.calls[3].ok
  /\ ~bcast.raised


\* ================================================= properties: the client
\* The sockets the bridge has made and whose close event has not fired.
LiveSockets == {k \in Sockets : sock[k] \in {"CONNECTING", "OPEN", "CLOSING", "ABORTING"}}
\* This step makes socket k (new WebSocket).
Attempt(k) == sock[k] = "NONE" /\ sock'[k] # "NONE"

\* C11: no connection attempt is made while wantWs is false: a step that
\* makes a socket ends with wantWs true, so a retry timer that fires after the
\* flag went false makes none.
C11_NoReconnectWhenUnwanted ==
  [][\A k \in Sockets : Attempt(k) => wantWs']_vars

\* C11 witness: the retry timer of the first socket, armed when it closed,
\* has fired with wantWs false, and no second socket was made.
C11_Witness ==
  /\ ~wantWs
  /\ sock[1] = "CLOSED"
  /\ retry[1] = -2
  /\ \A k \in Sockets : k > 1 => sock[k] \in {"NONE", "OFF"}

\* C12: a socket is made only in a step that ends with wantWs true and that
\* starts with no socket outstanding; the bridge never has more than one
\* socket whose close event has not fired, and that socket is `ws`.
C12_OneSocket ==
  /\ [](Cardinality(LiveSockets) <= 1 /\ (ws # 0 => LiveSockets = {ws}))
  /\ [][\A k \in Sockets :
          Attempt(k) => (wantWs' /\ ws = 0 /\ LiveSockets = {} /\ ws' = k)]_vars

\* C12 witness: the second socket was made by a gating flip while the retry
\* timer of the first was still pending.
C12_Witness ==
  /\ sock[1] = "CLOSED"
  /\ sock[2] = "CONNECTING"
  /\ ws = 2
  /\ retry[1] >= 0


\* ================================================== properties: the router
\* Message m is a redeem message for the bridge's channel.
Addressed(m) == m.type = "redeem" /\ m.channelId = CHANNEL_ID

\* C13 as stated: a redeem message for the bridge's channel whose itemId has
\* no registered handler creates no task: the queue is as it was, no handler
\* is invoked and nothing is left unhandled.
C13_UnknownItemNoTask ==
  [][\A m \in feed :
       (Receipt(m) /\ Addressed(m) /\ m.itemId \notin HANDLERS) =>
         /\ tasks' = tasks
         /\ chain' = chain
         /\ started' = started
         /\ uncaught' = uncaught]_vars


\* ================================================= properties: the registry
\* The connections in the subscriber set of channel X.
Members(X) ==
  IF X \in DOMAIN channelSockets
  THEN {channelSockets[X][i] : i \in 1..Len(channelSockets[X])}
  ELSE {}

\* C14: a connection whose upgrade request carried no channel_id, or an empty
\* one, had its transport destroyed, is in no subscriber set and is sent no
\* event.
C14_NoChannelRefused ==
  \A c \in AllConns :
    asked[c] = "" =>
      /\ srv[c] = "DESTROYED"
      /\ connChan[c] = ""
      /\ \A X \in DOMAIN channelSockets : c \notin Members(X)
      /\ CallsTo(c) = {}

\* C14 witness: a broadcast reaches a subscriber while a connection that
\* asked without channel_id stays destroyed.
C14_Witness ==
  /\ \E c \in Conns : asked[c] = "" /\ srv[c] = "DESTROYED"
  /\ Len(bcast.calls) >= 1

\* C16: the registry maps a channel id to exactly the connections registered
\* for it whose close event has not fired, each once; it holds no empty set
\* and no connection under a channel other than its own.
C16_RegistryExact ==
  /\ DOMAIN channelSockets \subseteq Channels
  /\ \A X \in Channels :
       Members(X) = {c \in AllConns : connChan[c] = X /\ srv[c] \in {"OPEN", "CLOSING"}}
  /\ \A X \in DOMAIN channelSockets :
       /\ Len(channelSockets[X]) >= 1
       /\ Cardinality(Members(X)) = Len(channelSockets[X])

\* C16 witness: the last connection of one channel has closed and its entry
\* is gone, while another channel still has two subscribers.
C16_Witness ==
  /\ \E c \in Conns : srv[c] = "CLOSED" /\ connChan[c] \notin DOMAIN channelSockets
  /\ \E X \in DOMAIN channelSockets : Len(channelSockets[X]) = 2

\* C15: at a heartbeat tick every open connection that was pinged at the
\* previous tick and has not answered since is terminated, and every other
\* open connection is pinged and stays open; a connection whose close event
\* has fired is in no channel's set.
HeartbeatStep == hbTimer = 0 /\ hbTimer' = HEARTBEAT_MS
C15_HeartbeatTerminates ==
  /\ [][HeartbeatStep =>
          \A c \in AllConns :
            srv[c] = "OPEN" =>
              IF pinged[c] THEN srv'[c] = "CLOSING"
              ELSE srv'[c] = "OPEN" /\ pinged'[c]]_vars
  /\ [](\A c \in AllConns :
          srv[c] = "CLOSED" => \A X \in DOMAIN channelSockets : c \notin Members(X))
\* A connection terminated by the heartbeat has closed while another one,
\* which answered, is open and pinged again.
C15_Witness ==
  \E c, d \in Conns :
    /\ srv[c] = "CLOSED" /\ ~isAlive[c] /\ ~pinged[c]
    /\ srv[d] = "OPEN" /\ pinged[d] /\ connChan[d] = connChan[c]

\* C17: once no notification is on its way and every evaluation it triggered
\* has completed, wantWs equals (stream output active or record output
\* active) of the present state of OBS.
Quiescent == notes = 0 /\ evals = <<>>
C17_GatingConverges == Quiescent => (wantWs = (stream \/ record))

\* C18: a request has called broadcastToChannel only if every store write of
\* its route has committed, and a request that was rejected or whose
\* mutation failed has not called it; the broadcast of a step carries the
\* event of the request that made it.
Writes(kind) == Cardinality({i \in 1..Len(RouteSteps(kind)) : RouteSteps(kind)[i] = "write"})
C18_PublishAfterCommit ==
  /\ [](\A r \in 1..MaxReqs :
          /\ reqs[r].sent => reqs[r].writes = Writes(reqs[r].kind)
          /\ reqs[r].st \in {"rejected", "failed"} => ~reqs[r].sent)
  /\ [][\A r \in 1..MaxReqs :
          (~reqs[r].sent /\ reqs'[r].sent) =>
             /\ reqs[r].writes = Writes(reqs[r].kind) \/ reqs'[r].writes = Writes(reqs[r].kind)
             /\ Len(bcast'.calls) >= 1
             /\ RoutePayload(reqs[r].kind).eid \in pubs']_vars
\* A refund has published its event while another request's write failed.
C18_Witness ==
  \E r, q \in 1..MaxReqs :
    /\ reqs[r].kind = "refund" /\ reqs[r].sent /\ reqs[r].st = "replied"
    /\ reqs[q].st = "failed" /\ reqs[q].writes = 0

\* C19: a frame is put on a connection only in the step that publishes its
\* event, and only if the connection is open and registered for the event's
\* channel in that step; so a connection registered later gets none of the
\* earlier events, and no connection is sent the same event twice.
Grew(k) == Len(wire'[k]) > Len(wire[k])
C19_NoEventLog ==
  /\ [][\A k \in Sockets :
          Grew(k) =>
            /\ srv[BridgeConn(k)] = "OPEN"
            /\ connChan[BridgeConn(k)] = bcast'.channelId
            /\ \E e \in feed : /\ e.eid \notin pubs
                                /\ pubs' = pubs \cup {e.eid}
                                /\ wire'[k] = Append(wire[k], e)]_vars
  /\ [](\A k \in Sockets : \A i, j \in 1..Len(wire[k]) :
          i # j => wire[k][i].eid # wire[k][j].eid)
\* An event was published to the first socket and received there; the second
\* socket, registered afterwards, is open and has been sent nothing.
C19_Witness ==
  /\ Len(received) >= 1 /\ sock[1] = "CLOSED"
  /\ sock[2] = "OPEN" /\ srv[BridgeConn(2)] = "OPEN" /\ wire[2] = <<>>
  /\ Cardinality(pubs) = 1

\* C20: a received message that is not a redeem for the bridge's channel
\* changes neither the queue nor the dedupe set, and every task was made for
\* a received redeem message of the bridge's channel.
C20_OnlyOwnRedeems ==
  /\ [][\A m \in feed : (Receipt(m) /\ ~Addressed(m)) => QueueAndRecentUnchanged]_vars
  /\ [](\A i \in 1..Len(tasks) :
          tasks[i].rid \in 1..Len(received) /\ Addressed(received[tasks[i].rid]))
\* A redeem for another channel, a mystery and a sell event were received and
\* left the queue and the dedupe set empty.
C20_Witness ==
  /\ Len(received) = 3
  /\ {received[i].type : i \in 1..3} = {"redeem", "mystery", "sell"}
  /\ \A i \in 1..3 : ~Addressed(received[i])
  /\ tasks = <<>> /\ recent = {}

\* C21: the receipt of a frame that is not the JSON text of an object lets no
\* exception leave the message handler and changes neither the dedupe set,
\* nor the queue, nor the connection.
C21_MalformedDiscarded ==
  [][junk' # junk =>
       /\ uncaught' = uncaught
       /\ QueueAndRecentUnchanged
       /\ UNCHANGED <<wantWs, ws, sock, retry>>]_vars
\* Two such frames were received while a task was running, and the bridge
\* went on to receive a redeem.
C21_Witness ==
  /\ junk = 2 /\ ~uncaught
  /\ Len(tasks) = 1 /\ tasks[1].st = "running" /\ sock[1] = "OPEN"

\* The three events of the feed have been received, once each.
AllThreeReceived ==
  Len(received) = 3 /\ {received[i] : i \in 1..3} = feed
C23_KeepsRetrying ==
  (wantWs /\ ws = 0 /\ FreeSockets # {}) ~> (~wantWs \/ ws # 0)
\* The first socket closed while wantWs was true, and the retry timer of that
\* close has just made the second attempt.
C23_Witness ==
  /\ wantWs /\ sock[1] = "CLOSED" /\ retry[1] = -2
  /\ ws = 2 /\ sock[2] = "CONNECTING"

\* ============================================ properties: POST /redeem
\* C24: every redeem request has deleted an inventory document exactly if it
\* has inserted a redemptions document, and the step in which a request finds
\* no matching document changes neither collection and publishes nothing.
C24_RedeemAtomic ==
  /\ [](\A r \in 1..MaxReqs : redeems[r].inserted <=> redeems[r].removed)
  /\ [][\A r \in 1..MaxReqs :
          (redeems[r].st # "noitem" /\ redeems'[r].st = "noitem") =>
             /\ UNCHANGED <<inventory, redemptions, wire, pubs>>
             /\ bcast' = NoBcast]_vars

\* ======================================== properties: the dedupe key's bucket
\* C25: two redeem messages with the same type, itemId and viewer, received
\* with no clear of the dedupe set in between, have left one key in the set
\* exactly if floor(at / 2000) is the same for both.
C25_FloorBucket ==
  (/\ Len(received) = 2
   /\ {received[1], received[2]} = feed
   /\ Cardinality(seen) = 2)
  => (Cardinality(recent) = 1
        <=> \A a, b \in feed : a.at \div BUCKET_MS = b.at \div BUCKET_MS)

\* ================================================= properties: the backoff
\* C26: a socket is made by a step that leaves wantWs true as it was only if
\* no close's 1500 ms are still running.  (A socket that closed with its timer
\* armed and is the last one made closed while wantWs was true, and wantWs has
\* not changed since: a change to true with no socket outstanding makes a
\* socket at once.)
C26_BackoffFromClose ==
  [][\A j \in Sockets :
       (sock[j] = "NONE" /\ sock'[j] = "CONNECTING" /\ wantWs /\ wantWs')
         => \A k \in Sockets : sock[k] = "CLOSED" => retry[k] <= 0]_vars

\* ============================== properties: connections that are not open
\* C27: a broadcast calls send only on connections that are open, does not
\* raise, and changes neither the registry nor the state of a connection; a
\* registered connection that is closing is still in the set of its channel.
C27_SkipsNotOpen ==
  /\ [][bcast' # NoBcast =>
          /\ \A i \in 1..Len(bcast'.calls) : srv[bcast'.calls[i].conn] = "OPEN"
          /\ ~bcast'.raised
          /\ UNCHANGED <<channelSockets, srv, connChan>>]_vars
  /\ [](\A c \in AllConns :
          (srv[c] = "CLOSING" /\ connChan[c] # "") => c \in Members(connChan[c]))
\* A broadcast reached an open subscriber and skipped a closing one, which is
\* still registered for the channel.
C27_Witness ==
  /\ bcast # NoBcast
  /\ Len(bcast.calls) >= 1
  /\ \E c \in Conns :
       /\ srv[c] = "CLOSING" /\ connChan[c] = bcast.channelId
       /\ c \in Members(bcast.channelId)
       /\ CallsTo(c) = {}

\* ============================================ properties: items with no hold
\* The items that have a handler and no declared duration, or duration 0.
NoHoldItems == {"streamer_asmr", "mystery_box", "vip_badge", "tts_message",
                "timeout_anyone"}
\* C28: no task has a negative hold, and the task of an item with no declared
\* duration or duration 0 has hold 0 and never sleeps; in the step in which
\* its handler settles the task is done, and the handler of the task queued
\* behind it is invoked.
C28_ZeroHold ==
  /\ [](\A i \in 1..Len(tasks) :
          /\ tasks[i].hold >= 0
          /\ tasks[i].itemId \in NoHoldItems =>
               tasks[i].hold = 0 /\ tasks[i].st # "holding")
  /\ [][\A i \in 1..Len(tasks) :
          (/\ tasks[i].itemId \in NoHoldItems
           /\ tasks[i].st = "running" /\ tasks'[i].st # "running")
          => /\ tasks'[i].st = "done"
             /\ \A j \in 1..Len(tasks) :
                  tasks[j].prev = i =>
                    /\ tasks'[j].st = "running"
                    /\ tasks'[j].startAt = now]_vars
\* The handler of a task for streamer_asmr has settled; the task is done
\* without having slept, and the handler of the task behind it is running.
C28_Witness ==
  /\ Len(tasks) >= 2
  /\ tasks[1].itemId = "streamer_asmr" /\ tasks[1].st = "done" /\ tasks[1].waited = 0
  /\ tasks[2].prev = 1 /\ tasks[2].st = "running"

\* ================================================ properties: no cancellation
\* This step is one of the connection: the gating flag, the current socket or
\* the state of a socket changes, or a retry timer fires.
RetryFired == \E k \in Sockets : retry[k] = 0 /\ retry'[k] = -2
ConnectionStep == wantWs' # wantWs \/ ws' # ws \/ sock' # sock \/ RetryFired
\* C29: a step of the connection (close, reconnect, gating flip) leaves the
\* tasks, the chain and the invocation history as they were; handlers are
\* invoked in the order of acceptance and a task is done only when its whole
\* hold has elapsed; and a retry timer that fires while wantWs is false makes
\* no socket.
C29_NothingCancelled ==
  /\ [][ConnectionStep => UNCHANGED <<tasks, chain, started, recent>>]_vars
  /\ [](\A i, j \in 1..Len(tasks) : (i < j /\ Invoked(j)) => Invoked(i))
  /\ [](\A i \in 1..Len(tasks) :
          tasks[i].st = "done" => tasks[i].waited = tasks[i].hold)
  /\ [][(RetryFired /\ ~wantWs) => UNCHANGED <<ws, sock>>]_vars
\* Two events were accepted on the first socket, which then closed; the gating
\* flag went false and, 1500 ms after the close, the retry timer has fired
\* without making a socket; the first task is done and the second in its hold.
C29_Witness ==
  /\ ~wantWs /\ sock[1] = "CLOSED" /\ retry[1] = -2 /\ sock[2] = "NONE"
  /\ Len(tasks) = 2
  /\ tasks[1].st = "done" /\ tasks[1].hold > 0
  /\ tasks[2].st = "holding"

\* ========================================= properties: the periodic clear
\* The callback of setInterval(() => recent.clear(), 10000) runs in this step.
ClearStep == clearTimer = 0 /\ clearTimer' = CLEAR_MS
\* C30: the step of the clear leaves the dedupe set empty and the next clear
\* 10 s away; every other step keeps the keys recorded; and a redeem message
\* of the bridge's channel whose key is not in the set (as after a clear, also
\* for a message accepted before it) is accepted: its key is recorded and, if
\* its item has a handler, a task is enqueued.
C30_ClearedAsAWhole ==
  /\ [][ClearStep => recent' = {}]_vars
  /\ [][~ClearStep => (recent \subseteq recent' /\ clearTimer' <= clearTimer)]_vars
  /\ [](clearTimer \in 0..CLEAR_MS)
  /\ [][\A m \in feed :
          (/\ Receipt(m)
           /\ m.type = "redeem" /\ m.channelId = CHANNEL_ID
           /\ dedupeKey(m, now) \notin recent)
          => /\ dedupeKey(m, now) \in recent'
             /\ HandlerFound(m.itemId) =>
                  /\ Len(tasks') = Len(tasks) + 1
                  /\ tasks'[Len(tasks')].eid = m.eid]_vars
\* The same event was accepted before and after a clear: two tasks for it,
\* and the set holds its key alone although another key was recorded before
\* the clear.
C30_Witness ==
  /\ Len(received) = 3
  /\ received[1] = received[3] /\ received[2] # received[1]
  /\ Len(tasks) = 3
  /\ tasks[1].eid = tasks[3].eid
  /\ Cardinality(recent) = 1

\* ============================================== properties: the event payloads
\* The event types of the data model.
EventTypes == {"redeem", "grant", "grant_all", "refund", "mystery", "sell"}
\* C31: every payload a route has passed to broadcastToChannel for the
\* bridge's channel (the frames on their way to the bridge) has one of the
\* event types, carries the id of that channel and carries a timestamp.
C31_WellFormedEvent ==
  \A k \in Sockets : \A i \in 1..Len(wire[k]) :
    /\ wire[k][i].type \in EventTypes
    /\ wire[k][i].channelId = CHANNEL_ID
    /\ wire[k][i].at # 0

\* ================================================== properties: the panel
\* C32: no instance of the panel's subscription effect makes a socket after
\* its cleanup, and the panel never has more than one socket connecting or
\* open.
C32_NoSocketAfterCleanup ==
  /\ panel.late = {}
  /\ Cardinality({s \in 1..Len(panel.sock) :
                    panel.sock[s] \in {"CONNECTING", "OPEN"}}) <= 1


\* ============================================ properties: the points ledger
\* C33: a call of addUserPointsDelta that returns, returns the ledger's
\* balance before its PUT plus trunc(delta), and leaves the cache holding
\* that value.
C33_DeltaReturnsBalance ==
  [][\A r \in 1..Len(shop.req) :
       (shop.req[r].st # "returned" /\ shop'.req[r].st = "returned") =>
          /\ shop'.req[r].ret = shop'.req[r].pre + shop'.req[r].amount
          /\ shop'.has /\ shop'.v = shop'.req[r].ret]_vars

\* C34: the redemptions documents inserted, and the redeem events published,
\* are no more than the inventory documents the redeem requests have removed.
RedeemsRemoved == Cardinality({r \in 1..MaxReqs : redeems[r].removed})
C34_EntryConsumedOnce ==
  /\ redemptions <= RedeemsRemoved
  /\ Cardinality({r \in 1..MaxReqs : redeems[r].sent}) <= RedeemsRemoved

\* ==================================================== properties: POST /sell
RECURSIVE SumCredited(_)
SumCredited(n) == IF n = 0 THEN 0 ELSE shop.req[n].credited + SumCredited(n - 1)

\* C35: the points credited by sells are no more than the item's cost times
\* the inventory documents the sells have removed.
C35_SoldOnce ==
  SumCredited(Len(shop.req)) <=
    COST * Cardinality({r \in 1..Len(shop.req) : shop.req[r].removed})

\* C36: a sell that has answered ok: false has removed no inventory document,
\* credited no points and published no event.
SellFailures == {"rejected", "noitem", "nologin", "failed"}
C36_FailedSellKeepsAll ==
  \A r \in 1..Len(shop.req) :
    (shop.req[r].kind = "sell" /\ shop.req[r].st \in SellFailures) =>
       ~shop.req[r].removed /\ shop.req[r].credited = 0 /\ ~shop.req[r].sent

\* ===================================================== properties: POST /buy
\* C37: the items that buys have added to the inventory cost no more than
\* the points the viewer started with.
C37_NoOverspend ==
  COST * Cardinality({r \in 1..Len(shop.req) : shop.req[r].added}) <= shop.bal0


QueryFailStep == \E i \in 1..MaxEvals, q \in Queries : QueryFails(i, q)
C39_FailedQueryNoEffect ==
  [][QueryFailStep => UNCHANGED <<wantWs, ws, sock, retry, uncaught>>]_vars

\* An evaluation has failed while the bridge wanted its connection and held
\* an open socket, or waited for a retry timer, and these still stand.
C39_Witness ==
  /\ faults > 0
  /\ wantWs
  /\ \/ ws # 0 /\ sock[ws] = "OPEN"
     \/ \E k \in Sockets : retry[k] > 0


\* ================================ properties: the heartbeat, healthy clients
\* C40: a heartbeat tick leaves open every open connection that has no ping
\* unanswered: one that answered the ping of the tick before, and one accepted
\* since that tick, which was never pinged.
C40_HealthyKept ==
  [][HeartbeatStep =>
       \A c \in AllConns :
         (srv[c] = "OPEN" /\ ~pinged[c]) => srv'[c] = "OPEN"]_vars

\* Connection d, accepted after connection c, has been terminated by a tick
\* for a ping it left unanswered; c, which saw the same ticks and answered,
\* is open and was pinged again by the latest tick.
C40_Witness ==
  \E c, d \in Conns :
    /\ c < d
    /\ srv[d] = "CLOSING" /\ ~isAlive[d]
    /\ srv[c] = "OPEN" /\ pinged[c] /\ ~isAlive[c]
====
